---- MODULE Spec2Model ----
(***************************************************************************)
(* Model of the annotation processing engine of sgachoud/python_libs:      *)
(*   - metacore  AnnotationsRegistery  (processors.py, known_types.py)     *)
(*   - sg_lib    TypeRegistry + lru_cache'd free functions (annotations.py)*)
(*   - sg_lib    AnnotationsManager (annotations_manager.py)               *)
(*   - metacore  ConstantsMetaclass (constants.py), a caller of the        *)
(*               default registry's convert_to_annotation                  *)
(* Runtime values, type annotations and derived processors are modelled as *)
(* records.  A derived processor is a closure in the source; here it is a  *)
(* term that records the closure's captured variables, interpreted by the  *)
(* Apply* operators.                                                       *)
(***************************************************************************)
EXTENDS Integers, Sequences, FiniteSets, TLC

VARIABLES
    processors,   \* metacore: AnnotationsRegistery.__processors of the default registry
    cache,        \* metacore: AnnotationsRegistery.__cache of the default registry
    nReg,         \* number of registration calls made so far (bounded)
    ret,          \* what the last API call returned (or raised)
    lastLeaf,     \* history: leaves handed to the registration calls, per annotation
    sgReg,        \* sg_lib: the six dicts of TypeRegistry
    sgCache,      \* sg_lib: the lru_cache of the three *_from_annotation functions
    amReg,        \* sg_lib: the class-level registers of AnnotationsManager
    cn,           \* metacore: the constant class under construction or constructed
    stack,        \* metacore: the derivation calls in progress, outermost first
    th,           \* sg_lib: two threads, the defaulter register and the defaulter cache
    classes       \* metacore: the constant classes created so far, in creation order

vars == <<processors, cache, nReg, ret, lastLeaf, sgReg, sgCache, amReg, cn, stack, th, classes>>

\* Bound on the number of registration calls in one behaviour.
MaxRegistrations == 2

(***************************************************************************)
(* Runtime values.  t is the runtime type, a the text of an int or str,    *)
(* items the elements of a list or tuple (for a dict: key, value, key,     *)
(* value, ...; for a Cls instance: its constructor argument), elems the    *)
(* elements of a set.  An exception raised instead of a value is a value   *)
(* of type "ERR" whose a is the exception class.                           *)
(***************************************************************************)
Val(t, a, items, elems) == [t |-> t, a |-> a, items |-> items, elems |-> elems]
IntV(a) == Val("int", a, <<>>, {})
StrV(a) == Val("str", a, <<>>, {})
NoneV == Val("NoneType", "", <<>>, {})
TupleV(items) == Val("tuple", "", items, {})
ListV(items) == Val("list", "", items, {})
DictV(items) == Val("dict", "", items, {})
SetV(elems) == Val("set", "", <<>>, elems)
ClsV(arg) == Val("Cls", "", <<arg>>, {})
ErrV(kind) == Val("ERR", kind, <<>>, {})
IsErr(v) == v.t = "ERR"

\* The exception classes deriving from TypingError.
TypingErrors ==
    {"AnnotationProcessorError", "DefaultingAnnotationError",
     "ConvertingToAnnotationTypeError"}

\* Digit strings int() parses, and the characters of the strings of the model.
Numerals == {"0", "1", "2", "12"}
Chars(s) ==
    CASE s = "" -> <<>>
      [] s = "12" -> <<StrV("1"), StrV("2")>>
      [] s = "None" -> <<StrV("N"), StrV("o"), StrV("n"), StrV("e")>>
      [] OTHER -> <<StrV(s)>>

Hashable(v) == v.t \in {"int", "str", "NoneType", "Cls"}
    \/ (v.t = "tuple" /\ \A i \in 1..Len(v.items) : v.items[i].t \in {"int", "str", "NoneType", "Cls"})

RECURSIVE SetToSeq(_)
SetToSeq(S) ==
    IF S = {} THEN <<>>
    ELSE LET x == CHOOSE y \in S : TRUE IN <<x>> \o SetToSeq(S \ {x})

DictKeys(v) == [i \in 1..(Len(v.items) \div 2) |-> v.items[2 * i - 1]]
DictValues(v) == [i \in 1..(Len(v.items) \div 2) |-> v.items[2 * i]]

\* iter(v): the elements Python yields, or TypeError for a non-iterable.
Iterable(v) == v.t \in {"str", "list", "tuple", "dict", "set"}
Iterate(v) ==
    CASE v.t = "str" -> Chars(v.a)
      [] v.t \in {"list", "tuple"} -> v.items
      [] v.t = "dict" -> DictKeys(v)
      [] v.t = "set" -> SetToSeq(v.elems)
      [] OTHER -> <<>>

\* len(v): defined for the sized types only.
HasLen(v) == v.t \in {"str", "list", "tuple", "dict", "set"}
LenOf(v) ==
    CASE v.t = "dict" -> Len(v.items) \div 2
      [] v.t = "set" -> Cardinality(v.elems)
      [] OTHER -> Len(Iterate(v))

RECURSIVE JoinRepr(_, _)
RECURSIVE Repr(_)
\* repr(v), as it appears inside the str() of a container.
Repr(v) ==
    CASE v.t = "int" -> v.a
      [] v.t = "str" -> "'" \o v.a \o "'"
      [] v.t = "NoneType" -> "None"
      [] v.t = "list" -> "[" \o JoinRepr(v.items, 1) \o "]"
      [] v.t = "tuple" ->
            IF Len(v.items) = 1 THEN "(" \o Repr(v.items[1]) \o ",)"
            ELSE "(" \o JoinRepr(v.items, 1) \o ")"
      [] v.t = "dict" -> "{" \o JoinRepr(v.items, 2) \o "}"
      [] v.t = "set" ->
            IF v.elems = {} THEN "set()" ELSE "{" \o JoinRepr(SetToSeq(v.elems), 1) \o "}"
      [] v.t = "CastType" -> "<CastType object>"
      [] OTHER -> "<Cls object>"
JoinRepr(items, step) ==
    IF items = <<>> THEN ""
    ELSE LET one == IF step = 2 THEN Repr(items[1]) \o ": " \o Repr(items[2])
                    ELSE Repr(items[1])
             rest == SubSeq(items, step + 1, Len(items))
         IN  IF rest = <<>> THEN one ELSE one \o ", " \o JoinRepr(rest, step)

\* str(v)
StrOf(v) == IF v.t = "str" THEN v.a ELSE Repr(v)

RECURSIVE DictPut(_, _, _)
\* d[k] = x on the key/value sequence of a dict.
DictPut(items, k, x) ==
    IF items = <<>> THEN <<k, x>>
    ELSE IF items[1] = k THEN <<k, x>> \o SubSeq(items, 3, Len(items))
    ELSE <<items[1], items[2]>> \o DictPut(SubSeq(items, 3, Len(items)), k, x)

\* c_type(): the zero-argument constructor call of a runtime type.
ZeroArg(name) ==
    CASE name = "int" -> IntV("0")
      [] name = "str" -> StrV("")
      [] name = "NoneType" -> NoneV
      [] name = "list" -> ListV(<<>>)
      [] name = "tuple" -> TupleV(<<>>)
      [] name = "dict" -> DictV(<<>>)
      [] name = "set" -> SetV({})
      [] name = "CastType" -> Val("CastType", "", <<>>, {})
      [] name = "Strict" -> ErrV("ValueError")   \* a class whose __init__(self) raises ValueError
      [] OTHER -> ErrV("TypeError")   \* Cls.__init__ needs an argument; Any cannot be instantiated

\* c_type(value): the one-argument constructor call of a runtime type.
Construct(name, v) ==
    CASE name = "int" ->
            IF v.t = "int" THEN v
            ELSE IF v.t = "str" THEN (IF v.a \in Numerals THEN IntV(v.a) ELSE ErrV("ValueError"))
            ELSE ErrV("TypeError")
      [] name = "str" -> StrV(StrOf(v))
      [] name = "Cls" -> ClsV(v)
      [] name = "list" -> IF Iterable(v) THEN ListV(Iterate(v)) ELSE ErrV("TypeError")
      [] name = "tuple" -> IF Iterable(v) THEN TupleV(Iterate(v)) ELSE ErrV("TypeError")
      [] name = "set" ->
            IF ~Iterable(v) THEN ErrV("TypeError")
            ELSE LET its == Iterate(v)
                 IN  IF \A i \in 1..Len(its) : Hashable(its[i])
                     THEN SetV({its[i] : i \in 1..Len(its)})
                     ELSE ErrV("TypeError")
      [] name = "dict" -> IF v.t = "dict" THEN v ELSE ErrV("TypeError")
      [] OTHER -> ErrV("TypeError")   \* NoneType takes no arguments; Any cannot be instantiated

(***************************************************************************)
(* ValidationLevel and its bitwise combination.                            *)
(***************************************************************************)
NONE == 0
FULL == 1
PARTIAL == 2

RECURSIVE BitAnd(_, _)
BitAnd(x, y) ==
    IF x = 0 \/ y = 0 THEN 0
    ELSE (IF x % 2 = 1 /\ y % 2 = 1 THEN 1 ELSE 0) + 2 * BitAnd(x \div 2, y \div 2)
RECURSIVE BitOr(_, _)
BitOr(x, y) ==
    IF x = 0 THEN y
    ELSE IF y = 0 THEN x
    ELSE (IF x % 2 = 1 \/ y % 2 = 1 THEN 1 ELSE 0) + 2 * BitOr(x \div 2, y \div 2)

vl_and(vl1, vl2) == BitAnd(vl1, vl2)
vl_or(vl1, vl2) == BitOr(vl1, vl2)

RECURSIVE Reduce(_, _, _)
\* functools.reduce(op, levels, start) with op given by name.
Reduce(opname, levels, start) ==
    IF levels = <<>> THEN start
    ELSE Reduce(opname, Tail(levels),
                IF opname = "and" THEN vl_and(start, levels[1]) ELSE vl_or(start, levels[1]))

\* The reduced level returned as it is, without the "or PARTIAL".
LevelKept(r) == r
\* ValidationLevel(r) or ValidationLevel.PARTIAL
LevelOrPartial(r) == IF r = 0 THEN PARTIAL ELSE r

(***************************************************************************)
(* Annotations.  k = "type": a runtime class (int, str, NoneType, a user   *)
(* class Cls whose constructor needs one argument, typing.Any, and the     *)
(* bare containers); k = "form": a bare special form (Union, Literal,      *)
(* Final, ClassVar); k = "alias": a subscripted annotation with its origin *)
(* name and its arguments (annotations in args, or the literal values of a *)
(* Literal in lits); k = "typevar": neither a class nor subscripted.       *)
(***************************************************************************)
Ann(k, name, args, lits) == [k |-> k, name |-> name, args |-> args, lits |-> lits]
Type(name) == Ann("type", name, <<>>, <<>>)
Form(name) == Ann("form", name, <<>>, <<>>)
Alias(name, args) == Ann("alias", name, args, <<>>)
LiteralOf(lits) == Ann("alias", "Literal", <<>>, lits)
TypeVarT == Ann("typevar", "T", <<>>, <<>>)

ContainerTypes == {"tuple", "list", "set", "dict"}
\* The generic classes of known_types.py: subscripting one gives an alias whose
\* origin is the class itself.
GenericClasses == {"CastType"}

\* isinstance(annotation, type)
IsType(d) == d.k = "type"

\* typing.get_origin: None (HasOrigin false) for anything that is not subscripted.
HasOrigin(d) == d.k = "alias"
get_origin(d) ==
    IF d.name \in ContainerTypes \cup GenericClasses THEN Type(d.name) ELSE Form(d.name)

\* typing.get_args: the type arguments, or the values of a Literal.
NArgs(d) == IF d.name = "Literal" THEN Len(d.lits) ELSE Len(d.args)

is_union(d) == d.k \in {"form", "alias"} /\ d.name = "Union"
is_optional(d) ==
    is_union(d) /\ \E i \in 1..Len(d.args) : d.args[i] = Type("NoneType")

(***************************************************************************)
(* Derived processors.  f names the closure's code, id its captured name   *)
(* (a leaf function, a runtime type or an exception class), inner the      *)
(* captured inner processors, aux the captured validators of a converter,  *)
(* lits the captured literal values.                                       *)
(***************************************************************************)
Fn(f, id, inner, aux, lits) ==
    [f |-> f, id |-> id, inner |-> inner, aux |-> aux, lits |-> lits]
NoFn == Fn("none", "", <<>>, <<>>, <<>>)
NotImpl == Fn("NotImplemented", "", <<>>, <<>>, <<>>)
Raise(kind) == Fn("raise", kind, <<>>, <<>>, <<>>)
Leaf(id) == Fn("leaf", id, <<>>, <<>>, <<>>)
IsRaise(fn) == fn.f = "raise"
IsFn(fn) == fn.f \notin {"raise", "none", "NotImplemented"}

\* The first exception in a sequence of derivation results, or NoFn.
FirstRaise(fns) ==
    IF \E i \in 1..Len(fns) : IsRaise(fns[i])
    THEN fns[CHOOSE i \in 1..Len(fns) : IsRaise(fns[i]) /\ \A j \in 1..(i - 1) : ~IsRaise(fns[j])]
    ELSE NoFn

\* The first exception in a sequence of values, or the given value.
FirstErrOr(vals, otherwise) ==
    IF \E i \in 1..Len(vals) : IsErr(vals[i])
    THEN vals[CHOOSE i \in 1..Len(vals) : IsErr(vals[i]) /\ \A j \in 1..(i - 1) : ~IsErr(vals[j])]
    ELSE otherwise

(***************************************************************************)
(* Leaf functions: those of the built-in entries, and the functions a      *)
(* caller hands to the registration calls (the inputs of the model).       *)
(***************************************************************************)
UserValidators == {"vAlwaysFull", "vAlwaysPartial"}
UserDefaulters == {"dStrA"}
UserConverters == {"cZero"}

LeafValidate(id, v) ==
    CASE id = "vAlwaysPartial" -> PARTIAL
      [] id = "vAlwaysNone" -> NONE
      [] OTHER -> FULL              \* AnyAnnotationEntry.validate, vAlwaysFull, ucFull.validator

LeafDefault(id) ==
    CASE id \in {"dStrA", "ucDefA.defaulter"} -> StrV("a")
      [] id = "dInt1" -> IntV("1")
      [] OTHER -> NoneV             \* AnyAnnotationEntry.default

LeafConvert(id, v) ==
    CASE id \in {"cZero", "ucConvZero.converter"} -> IntV("0")
      [] id = "cFail" -> ErrV("ValueError")
      [] OTHER -> v                 \* AnyAnnotationEntry.convert

(***************************************************************************)
(* Application of a derived validator: returns a ValidationLevel (a bool   *)
(* of an isinstance check reads as 0 or 1).                                *)
(***************************************************************************)
RECURSIVE ApplyValidator(_, _)
MapValidators(fns, vals) ==
    [i \in 1..(IF Len(fns) < Len(vals) THEN Len(fns) ELSE Len(vals)) |->
        ApplyValidator(fns[i], vals[i])]
MapValidator(fn, vals) == [i \in 1..Len(vals) |-> ApplyValidator(fn, vals[i])]

\* union_validator.validator with the PARTIAL test before the FULL test.
UnionLevelPartialFirst(r) ==
    IF BitAnd(r, PARTIAL) # 0 THEN PARTIAL
    ELSE IF BitAnd(r, FULL) # 0 THEN FULL
    ELSE NONE
\* union_validator.validator: the level of the OR-reduced inner levels.
UnionLevel(r) ==
    IF BitAnd(r, FULL) # 0 THEN FULL
    ELSE IF BitAnd(r, PARTIAL) # 0 THEN PARTIAL
    ELSE NONE

ApplyValidator(fn, v) ==
    CASE fn.f = "leaf" -> LeafValidate(fn.id, v)
      [] fn.f = "isinstance" -> IF v.t = fn.id THEN 1 ELSE 0
      [] fn.f = "union_validator" ->
            UnionLevel(Reduce("or", [i \in 1..Len(fn.inner) |-> ApplyValidator(fn.inner[i], v)], NONE))
      [] fn.f = "tuple_validator" ->
            IF v.t # "tuple" \/ Len(v.items) # Len(fn.inner) THEN NONE
            ELSE LevelOrPartial(Reduce("and", MapValidators(fn.inner, v.items), FULL))
      [] fn.f = "dyn_validator" ->
            IF v.t # fn.id THEN NONE
            ELSE LevelOrPartial(Reduce("and", MapValidator(fn.inner[1], Iterate(v)), FULL))
      [] fn.f = "dict_validator" ->
            IF v.t # "dict" THEN NONE
            ELSE LET keys == Reduce("and", MapValidator(fn.inner[1], DictKeys(v)), FULL)
                     values == Reduce("and", MapValidator(fn.inner[2], DictValues(v)), FULL)
                 IN  LevelOrPartial(vl_and(keys, values))
      [] fn.f = "literal_validator" ->
            IF \E i \in 1..Len(fn.lits) : fn.lits[i] = v THEN FULL ELSE NONE
      [] OTHER -> NONE

(***************************************************************************)
(* Application of a derived defaulter.                                     *)
(***************************************************************************)
RECURSIVE ApplyDefaulter(_)
ApplyDefaulter(fn) ==
    CASE fn.f = "leaf" -> LeafDefault(fn.id)
      [] fn.f = "type" -> ZeroArg(fn.id)
      [] fn.f = "tuple_defaulter" ->
            LET ds == [i \in 1..Len(fn.inner) |-> ApplyDefaulter(fn.inner[i])]
            IN  FirstErrOr(ds, TupleV(ds))
      [] fn.f = "literal_defaulter" ->
            IF fn.lits = <<>> THEN ErrV("IndexError") ELSE fn.lits[1]
      [] OTHER -> ErrV("TypeError")

(***************************************************************************)
(* Application of a derived converter: returns the converted value, or the *)
(* exception raised.                                                       *)
(***************************************************************************)
RECURSIVE ApplyConverter(_, _)
RECURSIVE TryInOrder(_, _, _, _)
RECURSIVE BuildDict(_, _, _, _)

\* The indexes of the variants at a given level, in listed order.
AtLevel(levels, lvl) == SelectSeq([i \in 1..Len(levels) |-> i], LAMBDA i : levels[i] = lvl)

\* partials + others with the two lists swapped.
CandidateOrderOthersFirst(levels) == AtLevel(levels, NONE) \o AtLevel(levels, PARTIAL)
\* union_converter.converter: partials + others.
CandidateOrder(levels) == AtLevel(levels, PARTIAL) \o AtLevel(levels, NONE)

\* for inner_converter in partials + others: try: return inner_converter(value) ...
\* tried lists the converters that were called, in call order.
TryInOrder(fns, order, v, k) ==
    IF k > Len(order)
    THEN [res |-> ErrV("ConvertingToAnnotationTypeError"), tried |-> order]
    ELSE LET r == ApplyConverter(fns[order[k]], v)
         IN  IF IsErr(r) THEN TryInOrder(fns, order, v, k + 1)
             ELSE [res |-> r, tried |-> SubSeq(order, 1, k)]

\* metacore union_converter.converter: the result and the converters called.
UnionRun(fn, v) ==
    LET n == IF Len(fn.aux) < Len(fn.inner) THEN Len(fn.aux) ELSE Len(fn.inner)
        levels == [i \in 1..n |-> ApplyValidator(fn.aux[i], v)]
    IN  IF \E i \in 1..n : levels[i] = FULL
        THEN LET i == CHOOSE j \in 1..n : levels[j] = FULL /\ \A m \in 1..(j - 1) : levels[m] # FULL
             IN  [res |-> ApplyConverter(fn.inner[i], v), tried |-> <<i>>]
        ELSE TryInOrder(fn.inner, CandidateOrder(levels), v, 1)

\* sg_lib union_converter.converter: a FULL variant returns the value itself.
SgUnionRun(fn, v) ==
    LET n == IF Len(fn.aux) < Len(fn.inner) THEN Len(fn.aux) ELSE Len(fn.inner)
        levels == [i \in 1..n |-> ApplyValidator(fn.aux[i], v)]
    IN  IF \E i \in 1..n : levels[i] = FULL
        THEN [res |-> v, tried |-> <<>>]
        ELSE TryInOrder(fn.inner, CandidateOrder(levels), v, 1)

\* {inner_converters[0](k): inner_converters[1](v) for k, v in value.items()}
BuildDict(kfn, vfn, items, acc) ==
    IF items = <<>> THEN DictV(acc)
    ELSE LET k == ApplyConverter(kfn, items[1])
         IN  IF IsErr(k) THEN k
             ELSE LET x == ApplyConverter(vfn, items[2])
                  IN  IF IsErr(x) THEN x
                      ELSE IF ~Hashable(k) THEN ErrV("TypeError")
                      ELSE BuildDict(kfn, vfn, SubSeq(items, 3, Len(items)), DictPut(acc, k, x))

\* The first converter applied to every element instead of the converter at its position.
ZipConvertFirstOnly(fns, v) ==
    [i \in 1..(IF Len(fns) < Len(Iterate(v)) THEN Len(fns) ELSE Len(Iterate(v))) |->
        ApplyConverter(fns[1], Iterate(v)[i])]
\* zip(inner_converters, value) of the tuple converters
ZipConvert(fns, v) ==
    LET its == Iterate(v)
    IN  [i \in 1..(IF Len(fns) < Len(its) THEN Len(fns) ELSE Len(its)) |->
            ApplyConverter(fns[i], its[i])]

\* The Literal converter failing on a value that is not among the literals.
LiteralConvertStrict(lits, v) ==
    IF \E i \in 1..Len(lits) : lits[i] = v THEN v
    ELSE ErrV("ConvertingToAnnotationTypeError")
\* LiteralAnnotationEntry.create_converter.converter
LiteralConvert(lits, v) ==
    IF \E i \in 1..Len(lits) : lits[i] = v THEN v
    ELSE IF lits = <<>> THEN ErrV("IndexError") ELSE lits[1]
\* Any exception becomes the ConvertingToAnnotationTypeError of the caller.
AsConversionError(v) == IF IsErr(v) THEN ErrV("ConvertingToAnnotationTypeError") ELSE v

ApplyConverter(fn, v) ==
    CASE fn.f = "leaf" -> LeafConvert(fn.id, v)
      [] fn.f = "none_converter" ->
            IF v.t # "NoneType" THEN ErrV("ConvertingToAnnotationTypeError") ELSE NoneV
      [] fn.f = "type_converter" ->
            IF v.t = fn.id THEN v ELSE AsConversionError(Construct(fn.id, v))
      [] fn.f = "union_converter" -> UnionRun(fn, v).res
      [] fn.f = "sg_union_converter" -> SgUnionRun(fn, v).res
      [] fn.f = "strict_union_converter" ->
            IF fn.inner = <<>> THEN ErrV("ConvertingToAnnotationTypeError")
            ELSE AsConversionError(ApplyConverter(fn.inner[1], v))
      [] fn.f = "tuple_converter" ->
            IF ~HasLen(v) THEN ErrV("TypeError")
            ELSE IF LenOf(v) # Len(fn.inner) THEN ErrV("ConvertingToAnnotationTypeError")
            ELSE IF ApplyValidator(fn.aux[1], v) = FULL THEN v
            ELSE LET res == ZipConvert(fn.inner, v) IN FirstErrOr(res, TupleV(res))
      [] fn.f = "sg_tuple_converter" ->
            IF ~HasLen(v) THEN ErrV("TypeError")
            ELSE IF LenOf(v) # Len(fn.inner) THEN ErrV("ConvertingToAnnotationTypeError")
            ELSE IF ApplyValidator(fn.aux[1], v) = FULL THEN v
            ELSE LET res == ZipConvert(fn.inner, v)
                 IN  AsConversionError(FirstErrOr(res, TupleV(res)))
      [] fn.f = "dyn_converter" ->
            IF ApplyValidator(fn.aux[1], v) = FULL THEN v
            ELSE IF ~Iterable(v) THEN ErrV("ConvertingToAnnotationTypeError")
            ELSE LET its == Iterate(v)
                     res == [i \in 1..Len(its) |-> ApplyConverter(fn.inner[1], its[i])]
                 IN  AsConversionError(FirstErrOr(res, Construct(fn.id, ListV(res))))
      [] fn.f = "dict_converter" ->
            IF v.t # "dict" THEN ErrV("AttributeError")
            ELSE BuildDict(fn.inner[1], fn.inner[2], v.items, <<>>)
      [] fn.f = "literal_converter" -> LiteralConvert(fn.lits, v)
      [] fn.f = "sg_wrap" ->
            LET r == ApplyConverter(fn.inner[1], v)
            IN  IF IsErr(r) /\ r.a \notin TypingErrors
                THEN ErrV("ConvertingToAnnotationTypeError") ELSE r
      [] OTHER -> ErrV("TypeError")

(***************************************************************************)
(* Normalisation of a raw annotation (resolve_annotation_types, that is    *)
(* typing.get_type_hints): the None shorthand (k = "none") becomes         *)
(* NoneType and a forward-reference string (k = "fwd") becomes the class   *)
(* it names, or raises NameError.                                          *)
(***************************************************************************)
KnownClassNames == {"int", "str", "NoneType", "Cls"}
ResolveError == Ann("error", "NameError", <<>>, <<>>)

RECURSIVE EvalType(_)
EvalType(d) ==
    CASE d.k = "fwd" -> IF d.name \in KnownClassNames THEN Type(d.name) ELSE ResolveError
      [] d.k = "alias" ->
            LET args == [i \in 1..Len(d.args) |-> EvalType(d.args[i])]
            IN  IF \E i \in 1..Len(args) : args[i] = ResolveError THEN ResolveError
                ELSE Ann("alias", d.name, args, d.lits)
      [] OTHER -> d

resolve_annotation_types(d) == IF d.k = "none" THEN Type("NoneType") ELSE EvalType(d)

(***************************************************************************)
(* metacore: annotation entries.  validate/default/convert name the leaf   *)
(* functions ("none" when unset); cv/cd/cc name the create_validator,      *)
(* create_defaulter and create_converter methods; cls is the entry's class,*)
(* which decides prepare_inner.                                            *)
(***************************************************************************)
Entry(cls, validate, default, convert, cv, cd, cc) ==
    [cls |-> cls, validate |-> validate, default |-> default, convert |-> convert,
     cv |-> cv, cd |-> cd, cc |-> cc]
NoEntry == Entry("absent", "none", "none", "none", "Base", "Base", "Base")
HasEntry(e) == e.cls # "absent"

AnyAnnotationEntry ==
    Entry("Any", "Any.validate", "Any.default", "Any.convert", "Base", "Base", "Base")
TupleAnnotationEntry == Entry("Tuple", "none", "none", "none", "Tuple", "Tuple", "Tuple")
DynamicContainerAnnotationEntry(sequence_type) ==
    Entry("Dyn", "none", "none", "none",
          "Dyn_" \o sequence_type, "Dyn_" \o sequence_type, "Dyn_" \o sequence_type)
EggCrackingAnnotationEntry == Entry("Egg", "none", "none", "none", "Egg", "Egg", "Egg")
DictAnnotationEntry == Entry("Dict", "none", "none", "none", "Dict", "Dict", "Dict")
LiteralAnnotationEntry ==
    Entry("Literal", "none", "none", "none", "Literal", "Literal", "Literal")
CastTypeAnnotationEntry ==
    Entry("CastType", "CastType.validate", "none", "none", "Base", "CastType", "CastType")

\* HousingAnnotationEntry.__init__ with no argument.
EmptyHousing == Entry("Housing", "none", "none", "none", "Base", "Base", "Base")

\* HousingAnnotationEntry.from_processor: leaves and creator methods are copied,
\* prepare_inner is the base class's.
from_processor(processor) ==
    IF ~HasEntry(processor) THEN EmptyHousing
    ELSE Entry("Housing", processor.validate, processor.default, processor.convert,
               processor.cv, processor.cd, processor.cc)

\* The dictionary key an annotation is: typing's Union aliases compare and hash by
\* the set of their arguments, so Union[int, str] and Union[str, int] are one key,
\* and subscripted annotations compare argument by argument.
RECURSIVE Key(_)
InSomeOrder(S) == CHOOSE s \in [1..Cardinality(S) -> S] : \A x \in S : \E i \in DOMAIN s : s[i] = x
KeyArgs(d) == [i \in 1..Len(d.args) |-> Key(d.args[i])]
Key(d) ==
    IF d.k # "alias" THEN d
    ELSE IF d.name = "Union"
         THEN [d EXCEPT !.args = InSomeOrder({KeyArgs(d)[i] : i \in 1..Len(d.args)})]
    ELSE [d EXCEPT !.args = KeyArgs(d)]

\* AnnotationsRegistery.get_processor
get_processor(procs, annotation) ==
    IF Key(annotation) \in DOMAIN procs THEN procs[Key(annotation)] ELSE NoEntry

\* The cache entry read by self.__cache[annotation] (a DefaultDict: a missing key
\* reads as an empty CacheEntry).
EmptyCacheEntry == [validator |-> NoFn, defaulter |-> NoFn, converter |-> NoFn]
CacheGet(c, annotation) ==
    IF Key(annotation) \in DOMAIN c THEN c[Key(annotation)] ELSE EmptyCacheEntry

\* The process-wide registry returned by annotation_registry().
DefaultRegistry == [procs |-> processors, cache |-> cache]

(***************************************************************************)
(* metacore: derivation.  R is a registry, [procs, cache].                 *)
(***************************************************************************)
\* One derivation call: op is "v", "d" or "c"; public calls normalise the annotation
\* first (validator_from_annotation, ...), private ones (__validator_from_annotation,
\* ...) take it as it is.
RECURSIVE Derive(_, _, _, _)
PubFrom(op, R, raw) == Derive(op, R, raw, TRUE)
Private(op, R, annotation) == Derive(op, R, annotation, FALSE)

\* What X_from_annotation raises when prepare_inner hands it a literal value: a str
\* is evaluated as a forward reference, anything else has no origin.
LiteralArgRaise(lit) ==
    IF lit.t = "str" THEN Raise("NameError") ELSE Raise("AnnotationProcessorError")

\* The result of prepare_inner: the inner processors, or the first exception.
Prepared(inner) == [err |-> FirstRaise(inner), inner |-> inner, lits |-> <<>>]

\* AnnotationEntry.prepare_inner and LiteralAnnotationEntry.prepare_inner.
prepare_inner(entry, annotation, op, R) ==
    IF entry.cls = "Literal"
    THEN [err |-> NoFn, inner |-> <<>>, lits |-> annotation.lits]
    ELSE IF annotation.name = "Literal" /\ annotation.lits # <<>>
    THEN [err |-> LiteralArgRaise(annotation.lits[1]), inner |-> <<>>, lits |-> <<>>]
    ELSE Prepared([i \in 1..Len(annotation.args) |-> PubFrom(op, R, annotation.args[i])])

\* AnnotationEntry._prepare_inner_safe: a TypingError becomes AnnotationProcessorError.
Safe(p) ==
    IF IsRaise(p.err) /\ p.err.id \in TypingErrors
    THEN [p EXCEPT !.err = Raise("AnnotationProcessorError")]
    ELSE p
PrepareInnerSafe(entry, annotation, op, R) == Safe(prepare_inner(entry, annotation, op, R))

\* The wrapper creators ignoring the inner processors: a leaf that accepts every
\* value, defaults to None and converts nothing.
FirstIgnored(inner) == IF inner = <<>> THEN Raise("IndexError") ELSE Leaf("accept_all")
First(inner) == IF inner = <<>> THEN Raise("IndexError") ELSE inner[1]

\* create_validator of the entry classes and of the caller's creators.
CreateValidator(cid, p, annotation, R) ==
    CASE cid = "Tuple" -> Fn("tuple_validator", "", p.inner, <<>>, <<>>)
      [] cid = "Dyn_list" -> Fn("dyn_validator", "list", p.inner, <<>>, <<>>)
      [] cid = "Dyn_set" -> Fn("dyn_validator", "set", p.inner, <<>>, <<>>)
      [] cid = "Egg" -> First(p.inner)
      [] cid = "Dict" -> Fn("dict_validator", "", p.inner, <<>>, <<>>)
      [] cid = "Literal" -> Fn("literal_validator", "", <<>>, <<>>, p.lits)
      [] cid = "ucFull" -> Leaf("ucFull.validator")
      [] cid = "ucReenter" -> Raise("RecursionError")   \* calls itself up to the recursion limit
      [] OTHER -> NotImpl

\* create_defaulter of the entry classes and of the caller's creators.
CreateDefaulter(cid, p, annotation, R) ==
    CASE cid = "Tuple" -> Fn("tuple_defaulter", "", p.inner, <<>>, <<>>)
      [] cid = "Dyn_list" -> Fn("type", "list", <<>>, <<>>, <<>>)
      [] cid = "Dyn_set" -> Fn("type", "set", <<>>, <<>>, <<>>)
      [] cid = "Egg" -> First(p.inner)
      [] cid = "CastType" -> First(p.inner)
      [] cid = "Dict" -> Fn("type", "dict", <<>>, <<>>, <<>>)
      [] cid = "Literal" -> Fn("literal_defaulter", "", <<>>, <<>>, p.lits)
      [] cid = "ucDefA" -> Leaf("ucDefA.defaulter")
      [] OTHER -> NotImpl

\* A container converter closing over the validator of its annotation.
WithValidator(f, id, inner, validator) ==
    IF IsRaise(validator) THEN validator ELSE Fn(f, id, inner, <<validator>>, <<>>)

\* create_converter of the entry classes and of the caller's creators.  The tuple
\* creator asks the registry it is given for the validator of the annotation, the
\* dynamic-container creator asks the process-wide registry.
CreateConverter(cid, p, annotation, R) ==
    CASE cid = "Tuple" ->
            WithValidator("tuple_converter", "", p.inner, PubFrom("v", R, annotation))
      [] cid = "Dyn_list" ->
            WithValidator("dyn_converter", "list", p.inner,
                          PubFrom("v", DefaultRegistry, annotation))
      [] cid = "Dyn_set" ->
            WithValidator("dyn_converter", "set", p.inner,
                          PubFrom("v", DefaultRegistry, annotation))
      [] cid = "Egg" -> First(p.inner)
      [] cid = "CastType" -> First(p.inner)
      [] cid = "Dict" -> Fn("dict_converter", "", p.inner, <<>>, <<>>)
      [] cid = "Literal" -> Fn("literal_converter", "", <<>>, <<>>, p.lits)
      [] cid = "ucConvZero" -> Leaf("ucConvZero.converter")
      [] cid = "ucReenter" -> Raise("RecursionError")   \* calls itself up to the recursion limit
      [] OTHER -> NotImpl

\* The creator call of raw_create_*, once the inner processors are prepared.
Created(op, entry, annotation, R, p) ==
    IF IsRaise(p.err) THEN p.err
    ELSE CASE op = "v" -> CreateValidator(entry.cv, p, annotation, R)
           [] op = "d" -> CreateDefaulter(entry.cd, p, annotation, R)
           [] OTHER -> CreateConverter(entry.cc, p, annotation, R)

\* AnnotationEntry.raw_create_validator / raw_create_defaulter / raw_create_converter
RawCreate(op, entry, annotation, R) ==
    Created(op, entry, annotation, R, PrepareInnerSafe(entry, annotation, op, R))

\* Union[...] derivation: the private derivation of every argument, in order.
InnerPrivate(op, R, annotation) ==
    [i \in 1..Len(annotation.args) |-> Private(op, R, annotation.args[i])]

\* The union validator over the inner validators, or their first exception.
UnionValidatorOf(inner_validators) ==
    IF FirstRaise(inner_validators) # NoFn THEN FirstRaise(inner_validators)
    ELSE Fn("union_validator", "", inner_validators, <<>>, <<>>)

\* __validator_from_annotation from the origin on: creator, leaf, union, origin.
ValidatorFromOrigin(R, annotation, origin, origin_entry, validator) ==
    IF HasEntry(origin_entry) /\ validator # NotImpl THEN validator
    ELSE IF HasEntry(origin_entry) /\ origin_entry.validate # "none"
         THEN Leaf(origin_entry.validate)
    ELSE IF is_union(origin) THEN UnionValidatorOf(InnerPrivate("v", R, annotation))
    ELSE Private("v", R, origin)

\* AnnotationsRegistery.__validator_from_annotation
ValidatorFrom(R, annotation) ==
    LET cache_entry == CacheGet(R.cache, annotation)
        entry == get_processor(R.procs, annotation)
        origin == get_origin(annotation)
        origin_entry == get_processor(R.procs, origin)
    IN  IF cache_entry.validator # NoFn THEN cache_entry.validator
        ELSE IF HasEntry(entry) /\ entry.validate # "none" THEN Leaf(entry.validate)
        ELSE IF IsType(annotation) THEN Fn("isinstance", annotation.name, <<>>, <<>>, <<>>)
        ELSE IF ~HasOrigin(annotation) THEN Raise("AnnotationProcessorError")
        ELSE ValidatorFromOrigin(R, annotation, origin, origin_entry,
                                 RawCreate("v", origin_entry, annotation, R))

\* The defaulter of a plain type taken to be NoneType whatever the type.
AtomicDefaulterNoneType(name, made) == Fn("type", "NoneType", <<>>, <<>>, <<>>)
\* The defaulter of a plain type: the type itself when calling it with no argument
\* works; only a TypeError of that call becomes DefaultingAnnotationError.
AtomicDefaulter(name, made) ==
    IF ~IsErr(made) THEN Fn("type", name, <<>>, <<>>, <<>>)
    ELSE IF made.a = "TypeError" THEN Raise("DefaultingAnnotationError")
    ELSE Raise(made.a)

\* __defaulter_from_annotation from the origin on: creator, leaf, union, origin.
DefaulterFromOrigin(R, annotation, origin, origin_entry, defaulter) ==
    IF HasEntry(origin_entry) /\ defaulter # NotImpl THEN defaulter
    ELSE IF HasEntry(origin_entry) /\ origin_entry.default # "none"
         THEN Leaf(origin_entry.default)
    ELSE IF is_union(origin)
         THEN IF is_optional(annotation) THEN Fn("type", "NoneType", <<>>, <<>>, <<>>)
              ELSE IF annotation.args = <<>> THEN Raise("StopIteration")
              ELSE Private("d", R, annotation.args[1])
    ELSE Private("d", R, origin)

\* AnnotationsRegistery.__defaulter_from_annotation
DefaulterFrom(R, annotation) ==
    LET cache_entry == CacheGet(R.cache, annotation)
        entry == get_processor(R.procs, annotation)
        origin == get_origin(annotation)
        origin_entry == get_processor(R.procs, origin)
    IN  IF cache_entry.defaulter # NoFn THEN cache_entry.defaulter
        ELSE IF HasEntry(entry) /\ entry.default # "none" THEN Leaf(entry.default)
        ELSE IF IsType(annotation) THEN AtomicDefaulter(annotation.name, ZeroArg(annotation.name))
        ELSE IF ~HasOrigin(annotation) THEN Raise("AnnotationProcessorError")
        ELSE DefaulterFromOrigin(R, annotation, origin, origin_entry,
                                 RawCreate("d", origin_entry, annotation, R))

\* The closure union_converter returns, or the first exception of its derivations.
UnionConverterOf(validators, converters_list) ==
    IF FirstRaise(validators) # NoFn THEN FirstRaise(validators)
    ELSE IF FirstRaise(converters_list) # NoFn THEN FirstRaise(converters_list)
    ELSE Fn("union_converter", "", converters_list, validators, <<>>)

\* union_converter: the validators of the arguments are derived first (through the
\* public validator_from_annotation), then the inner converters are listed.
union_converter(R, annotation) ==
    UnionConverterOf([i \in 1..Len(annotation.args) |-> PubFrom("v", R, annotation.args[i])],
                     InnerPrivate("c", R, annotation))

\* __converter_from_annotation from the origin on: creator, leaf, union, origin.
ConverterFromOrigin(R, annotation, origin, origin_entry, converter) ==
    IF HasEntry(origin_entry) /\ converter # NotImpl THEN converter
    ELSE IF HasEntry(origin_entry) /\ origin_entry.convert # "none"
         THEN Leaf(origin_entry.convert)
    ELSE IF is_union(origin) THEN union_converter(R, annotation)
    ELSE Private("c", R, origin)

\* __converter_from_annotation with the origin's creator asked before the leaf
\* registered for the annotation itself.
ConverterFromCreatorFirst(R, annotation) ==
    LET cache_entry == CacheGet(R.cache, annotation)
        entry == get_processor(R.procs, annotation)
        origin == get_origin(annotation)
        origin_entry == get_processor(R.procs, origin)
        created == IF HasOrigin(annotation) /\ HasEntry(origin_entry)
                   THEN RawCreate("c", origin_entry, annotation, R) ELSE NotImpl
    IN  IF cache_entry.converter # NoFn THEN cache_entry.converter
        ELSE IF created # NotImpl THEN created
        ELSE IF HasEntry(entry) /\ entry.convert # "none" THEN Leaf(entry.convert)
        ELSE IF IsType(annotation) THEN Fn("type_converter", annotation.name, <<>>, <<>>, <<>>)
        ELSE IF ~HasOrigin(annotation) THEN Raise("AnnotationProcessorError")
        ELSE ConverterFromOrigin(R, annotation, origin, origin_entry, created)
\* AnnotationsRegistery.__converter_from_annotation
ConverterFrom(R, annotation) ==
    LET cache_entry == CacheGet(R.cache, annotation)
        entry == get_processor(R.procs, annotation)
        origin == get_origin(annotation)
        origin_entry == get_processor(R.procs, origin)
    IN  IF cache_entry.converter # NoFn THEN cache_entry.converter
        ELSE IF HasEntry(entry) /\ entry.convert # "none" THEN Leaf(entry.convert)
        ELSE IF IsType(annotation) THEN Fn("type_converter", annotation.name, <<>>, <<>>, <<>>)
        ELSE IF ~HasOrigin(annotation) THEN Raise("AnnotationProcessorError")
        ELSE ConverterFromOrigin(R, annotation, origin, origin_entry,
                                 RawCreate("c", origin_entry, annotation, R))

\* The derivation of a normalised annotation.
Derived(op, R, annotation) ==
    IF annotation = ResolveError THEN Raise(ResolveError.name)
    ELSE CASE op = "v" -> ValidatorFrom(R, annotation)
           [] op = "d" -> DefaulterFrom(R, annotation)
           [] OTHER -> ConverterFrom(R, annotation)

Derive(op, R, annotation, public) ==
    IF public THEN Derived(op, R, resolve_annotation_types(annotation))
    ELSE Derived(op, R, annotation)

(***************************************************************************)
(* The annotations, values and registration inputs of the model.           *)
(***************************************************************************)
TInt == Type("int")
TStr == Type("str")
TNone == Type("NoneType")
TCls == Type("Cls")
TAny == Type("Any")
ListInt == Alias("list", <<TInt>>)
SetInt == Alias("set", <<TInt>>)
TupleIntStr == Alias("tuple", <<TInt, TStr>>)
DictIntStr == Alias("dict", <<TInt, TStr>>)
FinalInt == Alias("Final", <<TInt>>)
ClassVarCls == Alias("ClassVar", <<TCls>>)
CastInt == Alias("CastType", <<TInt>>)
UnionStrCastInt == Alias("Union", <<TStr, CastInt>>)
LiteralAB == LiteralOf(<<StrV("a"), StrV("b")>>)
UnionIntStr == Alias("Union", <<TInt, TStr>>)
UnionStrInt == Alias("Union", <<TStr, TInt>>)
OptionalInt == Alias("Union", <<TInt, TNone>>)
UnionNoneCls == Alias("Union", <<TNone, TCls>>)
UnionClsInt == Alias("Union", <<TCls, TInt>>)
UnionIntCls == Alias("Union", <<TInt, TCls>>)
UnionStrListInt == Alias("Union", <<TStr, ListInt>>)
UnionListIntTupleIntStr == Alias("Union", <<ListInt, TupleIntStr>>)
OptionalT == Alias("Union", <<TypeVarT, TNone>>)

\* The annotations handed to the derivation calls.
Annotations ==
    {TInt, TStr, TNone, TCls, TAny, TypeVarT, ListInt, TupleIntStr, DictIntStr, FinalInt,
     LiteralAB, UnionIntStr, UnionStrInt, OptionalInt, UnionNoneCls, UnionClsInt,
     UnionIntCls, UnionStrListInt, UnionListIntTupleIntStr, OptionalT, SetInt,
     ClassVarCls, CastInt, UnionStrCastInt}

\* The values handed to the derived processors.
Values ==
    {IntV("1"), StrV("1"), StrV("a"), StrV("b"), NoneV,
     ListV(<<IntV("1")>>), ListV(<<StrV("1")>>), ListV(<<StrV("a")>>),
     TupleV(<<IntV("1"), StrV("a")>>), TupleV(<<StrV("1"), IntV("2")>>),
     TupleV(<<IntV("1")>>),
     DictV(<<IntV("1"), StrV("a")>>), DictV(<<StrV("1"), IntV("2")>>),
     SetV({StrV("1")})}

\* The keys of the registration calls, per call.
ValidatorKeys == {TInt, TStr}
DefaulterKeys == {TInt, Form("Literal"), Form("Union")}
ConverterKeys == {TInt, UnionIntStr}
ProcessorKeys == {TInt}
CreatorKeys == {Form("Union")}
RegKeys == ValidatorKeys \cup DefaulterKeys \cup ConverterKeys \cup ProcessorKeys \cup CreatorKeys

\* An entry of a caller's own AnnotationEntry subclass, with a default leaf only.
UserEntry == Entry("User", "none", "dInt1", "none", "Base", "Base", "Base")
UserEntries == {UserEntry}

\* known_types.py: the entries registered in the default registry at import.
BuiltinEntries ==
    [k \in {TAny, Type("tuple"), Type("list"), Type("set"), Form("Final"), Form("ClassVar"),
            Type("dict"), Form("Literal")} |->
        CASE k = TAny -> AnyAnnotationEntry
          [] k = Type("tuple") -> TupleAnnotationEntry
          [] k = Type("list") -> DynamicContainerAnnotationEntry("list")
          [] k = Type("set") -> DynamicContainerAnnotationEntry("set")
          [] k = Type("dict") -> DictAnnotationEntry
          [] k = Form("Literal") -> LiteralAnnotationEntry
          [] OTHER -> EggCrackingAnnotationEntry]

(***************************************************************************)
(* What an API call returned: the call, its annotation argument, and the   *)
(* derived processors (a Raise term when the call raised).                 *)
(***************************************************************************)
Ret(op, annotation, validator, defaulter, converter, fiu) ==
    [op |-> op, ann |-> annotation, validator |-> validator, defaulter |-> defaulter,
     converter |-> converter, fiu |-> fiu]
NoAnn == Ann("none", "", <<>>, <<>>)
NoRet == Ret("none", NoAnn, NoFn, NoFn, NoFn, FALSE)
Returned(op, annotation) == Ret(op, annotation, NoFn, NoFn, NoFn, FALSE)
DeriveOps ==
    {"validator_from_annotation", "defaulter_from_annotation", "converter_from_annotation",
     "processors_from_annotation"}

NoLeaves == [validate |-> "none", default |-> "none", convert |-> "none"]
LeavesOf(entry) ==
    [validate |-> entry.validate, default |-> entry.default, convert |-> entry.convert]

(***************************************************************************)
(* AnnotationsRegistery: cache clearing and registration.  A registry is a *)
(* record [procs, cache].  The cache holds the keys it was given; no       *)
(* derivation stores a processor in it, and the empty entries the          *)
(* DefaultDict creates on a read are read back as EmptyCacheEntry.         *)
(***************************************************************************)
ResolvedKeys(annotation) ==
    LET r == resolve_annotation_types(annotation)
    IN  IF r = ResolveError THEN {Key(annotation)} ELSE {Key(annotation), Key(r)}

ClearField(c, annotation, field) ==
    [k \in DOMAIN c |->
        IF k \in ResolvedKeys(annotation) THEN [c[k] EXCEPT ![field] = NoFn] ELSE c[k]]

clear_cache_for_annotation(c, annotation) ==
    [k \in DOMAIN c \ ResolvedKeys(annotation) |-> c[k]]

clear_cache(c) == [k \in {} |-> EmptyCacheEntry]

\* register_processor with the entry kept when one is already registered.
RegisterProcessorKeepExisting(R, annotation, processor) ==
    [procs |-> [k \in DOMAIN R.procs \cup {Key(annotation)} |->
                   IF k \in DOMAIN R.procs /\ HasEntry(R.procs[k]) THEN R.procs[k]
                   ELSE processor],
     cache |-> clear_cache_for_annotation(R.cache, annotation)]
register_processor(R, annotation, processor) ==
    [procs |-> [k \in DOMAIN R.procs \cup {Key(annotation)} |->
                   IF k = Key(annotation) THEN processor ELSE R.procs[k]],
     cache |-> clear_cache_for_annotation(R.cache, annotation)]

\* _register_single_processor: field is the attribute the setter assigns.
RegisterSingle(R, annotation, s_processor, field) ==
    LET processor == get_processor(R.procs, annotation)
        housing == IF processor.cls # "Housing" THEN from_processor(processor) ELSE processor
        R1 == IF processor.cls # "Housing" THEN register_processor(R, annotation, housing)
              ELSE [R EXCEPT !.cache = clear_cache_for_annotation(R.cache, annotation)]
    IN  [R1 EXCEPT !.procs =
            [k \in DOMAIN R1.procs \cup {Key(annotation)} |->
                IF k = Key(annotation) THEN [housing EXCEPT ![field] = s_processor]
                ELSE R1.procs[k]]]

UserValidatorCreators == {"ucFull"}
UserDefaulterCreators == {"ucDefA"}
UserConverterCreators == {"ucConvZero"}

\* The sg_lib registry and caches at import: nothing registered, nothing cached.
EmptyMap == [k \in {} |-> "none"]
SgEmptyRegistry == [validators |-> EmptyMap, converters |-> EmptyMap, n |-> 0]
SgEmptyCache == [validator |-> EmptyMap, converter |-> EmptyMap]

\* The class-level registers of AnnotationsManager when the class is created.
AmEmptyRegistry == [defaulters |-> EmptyMap, creators |-> EmptyMap, n |-> 0]

\* sg_lib: no call in progress in either thread, nothing registered or cached.
ThIdle ==
    [pc1 |-> "idle", pc2 |-> "idle", defaulters |-> EmptyMap, dc |-> EmptyMap,
     annotation |-> Type("int"), made |-> NoFn, result |-> NoFn,
     n |-> 0, read |-> 0, raced |-> {}]

\* No constant class has been defined yet.
CnNoClass ==
    [status |-> "none", error |-> "", cause |-> "", allow_private |-> FALSE, body |-> <<>>,
     constants |-> <<>>, attrs |-> EmptyMap, created |-> EmptyMap, calls |-> <<>>,
     last |-> [op |-> "none", name |-> "", error |-> ""]]

Init ==
    /\ processors = BuiltinEntries
    /\ cache = [k \in {} |-> EmptyCacheEntry]
    /\ nReg = 0
    /\ ret = NoRet
    /\ lastLeaf = [k \in {Key(a) : a \in RegKeys} |-> LeavesOf(get_processor(BuiltinEntries, k))]
    /\ sgReg = SgEmptyRegistry
    /\ sgCache = SgEmptyCache
    /\ amReg = AmEmptyRegistry
    /\ cn = CnNoClass
    /\ stack = <<>>
    /\ th = ThIdle
    /\ classes = <<>>

Others == UNCHANGED <<sgReg, sgCache, amReg, cn, stack, th, classes>>

SetRegistry(R) == processors' = R.procs /\ cache' = R.cache

RegisterProcessor ==
    \E annotation \in ProcessorKeys, processor \in UserEntries :
        /\ nReg < MaxRegistrations
        /\ SetRegistry(register_processor(DefaultRegistry, annotation, processor))
        /\ nReg' = nReg + 1
        /\ lastLeaf' = [lastLeaf EXCEPT ![Key(annotation)] = LeavesOf(processor)]
        /\ ret' = Returned("register_processor", annotation)
        /\ Others

RegisterLeaf(op, keys, fns, field) ==
    \E annotation \in keys, f \in fns :
        /\ nReg < MaxRegistrations
        /\ SetRegistry(RegisterSingle(DefaultRegistry, annotation, f, field))
        /\ nReg' = nReg + 1
        /\ lastLeaf' = [lastLeaf EXCEPT ![Key(annotation)][field] = f]
        /\ ret' = Returned(op, annotation)
        /\ Others

RegisterValidator == RegisterLeaf("register_validator", ValidatorKeys, UserValidators, "validate")
RegisterDefaulter == RegisterLeaf("register_defaulter", DefaulterKeys, UserDefaulters, "default")
RegisterConverter == RegisterLeaf("register_converter", ConverterKeys, UserConverters, "convert")

RegisterCreator(op, fns, field) ==
    \E annotation \in CreatorKeys, f \in fns :
        /\ nReg < MaxRegistrations
        /\ SetRegistry(RegisterSingle(DefaultRegistry, annotation, f, field))
        /\ nReg' = nReg + 1
        /\ ret' = Returned(op, annotation)
        /\ UNCHANGED lastLeaf
        /\ Others

RegisterValidatorCreator == RegisterCreator("register_validator_creator", UserValidatorCreators, "cv")
RegisterDefaulterCreator == RegisterCreator("register_defaulter_creator", UserDefaulterCreators, "cd")
RegisterConverterCreator == RegisterCreator("register_converter_creator", UserConverterCreators, "cc")

\* processors_from_annotation: a TypingError of one derivation is returned in its
\* place; any other exception ends the call.
Caught(fn) == IF IsRaise(fn) /\ fn.id \in TypingErrors THEN Fn("exception", fn.id, <<>>, <<>>, <<>>) ELSE fn
Escapes(fn) == IsRaise(fn) /\ fn.id \notin TypingErrors
ProcessorsResult(op, raw, v, d, c) ==
    IF Escapes(v) THEN Ret(op, raw, v, NoFn, NoFn, FALSE)
    ELSE IF Escapes(d) THEN Ret(op, raw, NoFn, d, NoFn, FALSE)
    ELSE IF Escapes(c) THEN Ret(op, raw, NoFn, NoFn, c, FALSE)
    ELSE Ret(op, raw, Caught(v), Caught(d), Caught(c), FALSE)
ProcessorsResolved(R, raw, annotation) ==
    IF annotation = ResolveError
    THEN Ret("processors_from_annotation", raw, Raise(ResolveError.name), NoFn, NoFn, FALSE)
    ELSE ProcessorsResult("processors_from_annotation", raw, Private("v", R, annotation),
                          Private("d", R, annotation), Private("c", R, annotation))
ProcessorsFrom(R, raw) == ProcessorsResolved(R, raw, resolve_annotation_types(raw))

ClearValidatorCacheForAnnotation ==
    \E annotation \in RegKeys :
        /\ cache' = ClearField(cache, annotation, "validator")
        /\ ret' = Returned("clear_validator_cache_for_annotation", annotation)
        /\ UNCHANGED <<processors, nReg, lastLeaf>>
        /\ Others

ClearDefaulterCacheForAnnotation ==
    \E annotation \in RegKeys :
        /\ cache' = ClearField(cache, annotation, "defaulter")
        /\ ret' = Returned("clear_defaulter_cache_for_annotation", annotation)
        /\ UNCHANGED <<processors, nReg, lastLeaf>>
        /\ Others

ClearConverterCacheForAnnotation ==
    \E annotation \in RegKeys :
        /\ cache' = ClearField(cache, annotation, "converter")
        /\ ret' = Returned("clear_converter_cache_for_annotation", annotation)
        /\ UNCHANGED <<processors, nReg, lastLeaf>>
        /\ Others

ClearCacheForAnnotation ==
    \E annotation \in RegKeys :
        /\ cache' = clear_cache_for_annotation(cache, annotation)
        /\ ret' = Returned("clear_cache_for_annotation", annotation)
        /\ UNCHANGED <<processors, nReg, lastLeaf>>
        /\ Others

ClearCache ==
    /\ cache' = clear_cache(cache)
    /\ ret' = Returned("clear_cache", NoAnn)
    /\ UNCHANGED <<processors, nReg, lastLeaf>>
    /\ Others

(***************************************************************************)
(* The derivation calls on the default registry.  A call follows a         *)
(* registry operation or the start; ret holds what it returned.            *)
(***************************************************************************)
CanDerive == ret.op \notin DeriveOps

ValidatorFromAnnotation ==
    \E annotation \in Annotations :
        /\ CanDerive
        /\ ret' = Ret("validator_from_annotation", annotation,
                      PubFrom("v", DefaultRegistry, annotation), NoFn, NoFn, FALSE)
        /\ UNCHANGED <<processors, cache, nReg, lastLeaf>>
        /\ Others

DefaulterFromAnnotation ==
    \E annotation \in Annotations :
        /\ CanDerive
        /\ ret' = Ret("defaulter_from_annotation", annotation,
                      NoFn, PubFrom("d", DefaultRegistry, annotation), NoFn, FALSE)
        /\ UNCHANGED <<processors, cache, nReg, lastLeaf>>
        /\ Others

\* converter_from_annotation(annotation) takes no first_in_union argument: a call
\* that passes one raises TypeError.
ConverterFromAnnotation ==
    \E annotation \in Annotations, first_in_union \in BOOLEAN :
        /\ CanDerive
        /\ ret' = Ret("converter_from_annotation", annotation, NoFn, NoFn,
                      IF first_in_union THEN Raise("TypeError")
                      ELSE PubFrom("c", DefaultRegistry, annotation),
                      first_in_union)
        /\ UNCHANGED <<processors, cache, nReg, lastLeaf>>
        /\ Others

ProcessorsFromAnnotation ==
    \E annotation \in Annotations :
        /\ CanDerive
        /\ ret' = ProcessorsFrom(DefaultRegistry, annotation)
        /\ UNCHANGED <<processors, cache, nReg, lastLeaf>>
        /\ Others

Next ==
    \/ RegisterProcessor
    \/ RegisterValidator
    \/ RegisterDefaulter
    \/ RegisterConverter
    \/ RegisterValidatorCreator
    \/ RegisterDefaulterCreator
    \/ RegisterConverterCreator
    \/ ClearValidatorCacheForAnnotation
    \/ ClearDefaulterCacheForAnnotation
    \/ ClearConverterCacheForAnnotation
    \/ ClearCacheForAnnotation
    \/ ClearCache
    \/ ValidatorFromAnnotation
    \/ DefaulterFromAnnotation
    \/ ConverterFromAnnotation
    \/ ProcessorsFromAnnotation

Spec == Init /\ [][Next]_vars

(***************************************************************************)
(* Properties of the default registry.                                     *)
(***************************************************************************)
\* The call ret records returned a converter for ret.ann.
ConverterReturned ==
    ret.op = "converter_from_annotation" /\ ~ret.fiu /\ IsFn(ret.converter)

\* The validator the registry derives for the annotation of the last call.
ValidatorNow == PubFrom("v", DefaultRegistry, ret.ann)

\* A converter leaf is registered for exactly this annotation.
HasConverterLeaf(annotation) ==
    get_processor(processors, resolve_annotation_types(annotation)).convert # "none"

\* C1: No-op on full match.  Whenever the validator derived for D classifies V as
\* FULL, the converter derived for D returns V unchanged, unless a converter leaf
\* is registered for exactly D.
C1_NoOpOnFullMatch ==
    (ConverterReturned /\ IsFn(ValidatorNow) /\ ~HasConverterLeaf(ret.ann))
        => \A v \in Values :
              ApplyValidator(ValidatorNow, v) = FULL => ApplyConverter(ret.converter, v) = v

\* The call ret records returned a defaulter for ret.ann, and calling it succeeds.
DefaultSucceeds ==
    /\ ret.op = "defaulter_from_annotation"
    /\ IsFn(ret.defaulter)
    /\ ~IsErr(ApplyDefaulter(ret.defaulter))

\* The registry holds the built-in entries and converters registered by the caller:
\* no validator, defaulter, entry, validator creator or defaulter creator of the
\* caller's.
OnlyConverterRegistrations ==
    \A k \in DOMAIN processors :
        /\ processors[k].cls \in {get_processor(BuiltinEntries, k).cls, "Housing"}
        /\ processors[k].validate = get_processor(BuiltinEntries, k).validate
        /\ processors[k].default = get_processor(BuiltinEntries, k).default
        /\ processors[k].cv = get_processor(BuiltinEntries, k).cv
        /\ processors[k].cd = get_processor(BuiltinEntries, k).cd

RegisteredLeafIds == UserValidators \cup UserDefaulters \cup UserConverters \cup {"dInt1"}

\* fn is what a derivation for an annotation whose current entry has the given leaf
\* may return: the leaf itself when there is one and, for a plain type (whose
\* derivation consults no other entry), never a registered leaf that is not the
\* current one.
FromCurrentEntry(fn, leaf, annotation) ==
    /\ leaf # "none" => fn = Leaf(leaf)
    /\ (IsType(annotation) /\ fn.f = "leaf" /\ fn.id \in RegisteredLeafIds) => fn.id = leaf

\* C4: after register_processor(D, entry) or register_validator / defaulter /
\* converter(D, fn), a derivation for exactly D is computed from the entry last
\* registered for D (lastLeaf records its leaves): it returns the current leaf and
\* never a leaf of an entry that was replaced.
C4_DerivedFromNewEntry ==
    Key(ret.ann) \in DOMAIN lastLeaf =>
        /\ ret.op = "validator_from_annotation"
              => FromCurrentEntry(ret.validator, lastLeaf[Key(ret.ann)].validate, ret.ann)
        /\ ret.op = "defaulter_from_annotation"
              => FromCurrentEntry(ret.defaulter, lastLeaf[Key(ret.ann)].default, ret.ann)
        /\ (ret.op = "converter_from_annotation" /\ ~ret.fiu)
              => FromCurrentEntry(ret.converter, lastLeaf[Key(ret.ann)].convert, ret.ann)
        /\ ret.op = "processors_from_annotation"
              => /\ FromCurrentEntry(ret.validator, lastLeaf[Key(ret.ann)].validate, ret.ann)
                 /\ FromCurrentEntry(ret.defaulter, lastLeaf[Key(ret.ann)].default, ret.ann)
                 /\ FromCurrentEntry(ret.converter, lastLeaf[Key(ret.ann)].convert, ret.ann)

\* C4 witness: the entry registered last for int is the caller's entry, which has no
\* validator leaf, and the validator derived for int afterwards is the generic one.
C4_Witness ==
    /\ ret.op = "validator_from_annotation"
    /\ ret.ann = TInt
    /\ get_processor(processors, TInt) = UserEntry
    /\ nReg = 2
    /\ lastLeaf[Key(TInt)].validate = "none"
    /\ ret.validator = Fn("isinstance", "int", <<>>, <<>>, <<>>)

\* Two derivation results behave alike: the same exception, or the same result on
\* every value.
SameBehaviour(op, f, g) ==
    IF IsRaise(f) \/ IsRaise(g) THEN f = g
    ELSE CASE op = "v" -> \A v \in Values : ApplyValidator(f, v) = ApplyValidator(g, v)
           [] op = "d" -> ApplyDefaulter(f) = ApplyDefaulter(g)
           [] OTHER -> \A v \in Values : ApplyConverter(f, v) = ApplyConverter(g, v)

\* The operation a leaf registration names.
NamedOperation(call) ==
    CASE call = "register_validator" -> "v"
      [] call = "register_defaulter" -> "d"
      [] OTHER -> "c"

RegistryAfter == [procs |-> processors', cache |-> cache']

\* C5: register_validator, register_defaulter and register_converter for D leave
\* the other two operations undisturbed: what is derived for D, and for composites
\* whose origin is D, behaves after the registration exactly as before it.
C5_OtherOperationsUndisturbed ==
    [][ret'.op \in {"register_validator", "register_defaulter", "register_converter"}
         => \A a \in Annotations :
               (Key(a) = Key(ret'.ann) \/ (HasOrigin(a) /\ get_origin(a) = ret'.ann))
                  => \A op \in {"v", "d", "c"} \ {NamedOperation(ret'.op)} :
                        SameBehaviour(op, PubFrom(op, DefaultRegistry, a),
                                      PubFrom(op, RegistryAfter, a))]_vars

\* C6: derived functions are cached.  After validator_from_annotation(D) (likewise
\* defaulter_from_annotation and converter_from_annotation) succeeds, the cache of
\* the registry records the derived function for D and that operation.
C6_DerivedFunctionsCached ==
    /\ (ret.op = "validator_from_annotation" /\ IsFn(ret.validator))
          => CacheGet(cache, resolve_annotation_types(ret.ann)).validator = ret.validator
    /\ (ret.op = "defaulter_from_annotation" /\ IsFn(ret.defaulter))
          => CacheGet(cache, resolve_annotation_types(ret.ann)).defaulter = ret.defaulter
    /\ (ConverterReturned)
          => CacheGet(cache, resolve_annotation_types(ret.ann)).converter = ret.converter

\* The levels the variants' validators of a union validator give a value.
VariantLevels(fn, v) == [i \in 1..Len(fn.inner) |-> ApplyValidator(fn.inner[i], v)]
Some(levels, lvl) == \E i \in 1..Len(levels) : levels[i] = lvl

\* C7: union level priority.  The validator derived for a union returns FULL iff a
\* variant's validator returns FULL, PARTIAL iff none returns FULL and one returns
\* PARTIAL, NONE iff every variant returns NONE, and never the bit pattern 3.
C7_UnionLevelPriority ==
    (ret.op = "validator_from_annotation" /\ ret.validator.f = "union_validator")
        => \A v \in Values :
              LET levels == VariantLevels(ret.validator, v)
                  level == ApplyValidator(ret.validator, v)
              IN  /\ level \in {NONE, FULL, PARTIAL}
                  /\ level = FULL <=> Some(levels, FULL)
                  /\ level = PARTIAL <=> (~Some(levels, FULL) /\ Some(levels, PARTIAL))
                  /\ level = NONE <=> \A i \in 1..Len(levels) : levels[i] = NONE

\* C7 witness: the validator of Union[int, str] was derived while int has a validator
\* that returns PARTIAL, so the value 'a' is PARTIAL for one variant and FULL for
\* the other, and the union validator returns FULL.
C7_Witness ==
    /\ ret.op = "validator_from_annotation"
    /\ ret.ann = UnionIntStr
    /\ ret.validator.f = "union_validator"
    /\ VariantLevels(ret.validator, StrV("a")) = <<PARTIAL, FULL>>
    /\ ApplyValidator(ret.validator, StrV("a")) = FULL

\* The order the claim gives the candidates: PARTIAL variants in listed order, then
\* NONE variants in listed order.
PartialsThenNones(levels) == AtLevel(levels, PARTIAL) \o AtLevel(levels, NONE)
ValidatorLevels(fn, v) == [i \in 1..Len(fn.aux) |-> ApplyValidator(fn.aux[i], v)]
Succeeds(fn, i, v) == ~IsErr(ApplyConverter(fn.inner[i], v))
FirstSuccess(fn, order, v) ==
    CHOOSE k \in 1..Len(order) :
        Succeeds(fn, order[k], v) /\ \A m \in 1..(k - 1) : ~Succeeds(fn, order[m], v)

\* C8: best-match union conversion order.  When no variant classifies the value
\* FULL, the converters of the PARTIAL variants are tried in listed order, then
\* those of the NONE variants; the result is that of the first converter that does
\* not raise, none is tried after it, and ConvertingToAnnotationTypeError is raised
\* iff every candidate raises.
C8_BestMatchOrder ==
    (ConverterReturned /\ ret.converter.f = "union_converter")
        => \A v \in Values :
              LET fn == ret.converter
                  levels == ValidatorLevels(fn, v)
                  order == PartialsThenNones(levels)
                  run == UnionRun(fn, v)
                  some == \E k \in 1..Len(order) : Succeeds(fn, order[k], v)
              IN  ~Some(levels, FULL) =>
                     /\ some => /\ run.tried = SubSeq(order, 1, FirstSuccess(fn, order, v))
                                /\ run.res = ApplyConverter(fn.inner[order[FirstSuccess(fn, order, v)]], v)
                     /\ ~some => run.tried = order
                     /\ run.res = ErrV("ConvertingToAnnotationTypeError") <=> ~some
                     /\ ApplyConverter(fn, v) = run.res

\* C8 witness: the converter of Union[list[int], tuple[int, str]] was derived; the
\* value ('1', 2) is NONE for the first variant and PARTIAL for the second, so only
\* the tuple converter is called, although the list converter would succeed too.
C8_Witness ==
    /\ ConverterReturned
    /\ ret.ann = UnionListIntTupleIntStr
    /\ ret.converter.f = "union_converter"
    /\ ValidatorLevels(ret.converter, TupleV(<<StrV("1"), IntV("2")>>)) = <<NONE, PARTIAL>>
    /\ Succeeds(ret.converter, 1, TupleV(<<StrV("1"), IntV("2")>>))
    /\ UnionRun(ret.converter, TupleV(<<StrV("1"), IntV("2")>>))
          = [res |-> TupleV(<<IntV("1"), StrV("2")>>), tried |-> <<2>>]

\* C9: first-in-union conversion is selectable per call on converter_from_annotation:
\* with first_in_union set, the returned converter applies the converter of the
\* first variant only, and its failure is a ConvertingToAnnotationTypeError.
C9_FirstInUnionSelectable ==
    (/\ ret.op = "converter_from_annotation"
     /\ ret.fiu
     /\ ret.ann.k = "alias"
     /\ ret.ann.name = "Union"
     /\ IsFn(PubFrom("c", DefaultRegistry, ret.ann)))
        => /\ IsFn(ret.converter)
           /\ \A v \in Values :
                 ApplyConverter(ret.converter, v)
                    = AsConversionError(
                          ApplyConverter(PubFrom("c", DefaultRegistry, ret.ann.args[1]), v))

(***************************************************************************)
(* sg_lib typing_utilities.annotations: the TypeRegistry (validators and   *)
(* converters per type) and the lru_cache of validator_from_annotation and *)
(* converter_from_annotation.  sgReg holds the registry dictionaries and   *)
(* the number of registry calls made, sgCache the two caches, keyed as     *)
(* lru_cache keys them (the annotation, and the first_in_union flag).  No  *)
(* creator is registered, so the creator dictionaries stay empty.          *)
(***************************************************************************)
MaxSgRegistrations == 2

SgTypes == {TInt}
SgAnnotations == {TInt, UnionIntStr, UnionStrInt}
SgValidators == {"vAlwaysPartial"}
SgConverters == {"cZero"}

Put(map, k, x) == [j \in DOMAIN map \cup {k} |-> IF j = k THEN x ELSE map[j]]
Pop(map, k) == [j \in DOMAIN map \ {k} |-> map[j]]
Has(map, annotation) == Key(annotation) \in DOMAIN map

RECURSIVE SgValidatorFrom(_, _, _)
RECURSIVE SgValidatorNew(_, _, _)

\* The validator_from_annotation calls the body makes for a normalised composite
\* annotation, in order: on the arguments for Union, tuple and list, on the origin
\* otherwise; none when a validator is registered for the origin.
SgValidatorCalls(reg, annotation) ==
    IF IsType(annotation) \/ ~HasOrigin(annotation) THEN <<>>
    ELSE IF Has(reg.validators, get_origin(annotation)) THEN <<>>
    ELSE IF is_union(get_origin(annotation)) \/ get_origin(annotation) \in {Type("tuple"), Type("list")}
         THEN annotation.args
    ELSE <<get_origin(annotation)>>

\* The composite validator over the inner validators, or their first exception.
SgCompositeValidator(origin, inner) ==
    IF FirstRaise(inner) # NoFn THEN FirstRaise(inner)
    ELSE IF is_union(origin) THEN Fn("union_validator", "", inner, <<>>, <<>>)
    ELSE IF origin = Type("tuple") THEN Fn("tuple_validator", "", inner, <<>>, <<>>)
    ELSE IF origin = Type("list") THEN Fn("dyn_validator", "list", inner, <<>>, <<>>)
    ELSE inner[1]

\* The body of validator_from_annotation on a normalised annotation.
SgValidatorResolved(reg, c, annotation) ==
    IF annotation = ResolveError THEN Raise(ResolveError.name)
    ELSE IF IsType(annotation)
         THEN IF Has(reg.validators, annotation) THEN Leaf(reg.validators[Key(annotation)])
              ELSE Fn("isinstance", annotation.name, <<>>, <<>>, <<>>)
    ELSE IF ~HasOrigin(annotation) THEN Raise("DefaultingAnnotationError")
    ELSE IF Has(reg.validators, get_origin(annotation))
         THEN Leaf(reg.validators[Key(get_origin(annotation))])
    ELSE SgCompositeValidator(
             get_origin(annotation),
             [i \in 1..Len(SgValidatorCalls(reg, annotation)) |->
                 SgValidatorFrom(reg, c, SgValidatorCalls(reg, annotation)[i])])

\* validator_from_annotation under lru_cache: the cached function when the
\* annotation is a key of the cache, the body's result otherwise.
SgValidatorFrom(reg, c, raw) ==
    IF Has(c.validator, raw) THEN c.validator[Key(raw)]
    ELSE SgValidatorResolved(reg, c, resolve_annotation_types(raw))

\* The calls up to the first one that raises.
RECURSIVE UpToFirstRaise(_, _, _, _)
UpToFirstRaise(reg, c, calls, k) ==
    IF k > Len(calls) THEN <<>>
    ELSE IF IsRaise(SgValidatorFrom(reg, c, calls[k])) THEN <<calls[k]>>
    ELSE <<calls[k]>> \o UpToFirstRaise(reg, c, calls, k + 1)

\* The annotations validator_from_annotation(raw) adds to its cache: itself and
\* the annotations of its inner calls, each when not cached and when its call
\* returns (lru_cache stores no exception).
SgValidatorNew(reg, c, raw) ==
    IF Has(c.validator, raw) \/ resolve_annotation_types(raw) = ResolveError THEN {}
    ELSE (IF IsRaise(SgValidatorFrom(reg, c, raw)) THEN {} ELSE {raw})
         \cup UNION {SgValidatorNew(reg, c, a) :
                       a \in {UpToFirstRaise(reg, c, SgValidatorCalls(reg, resolve_annotation_types(raw)), 1)[i] :
                                i \in 1..Len(UpToFirstRaise(reg, c, SgValidatorCalls(reg, resolve_annotation_types(raw)), 1))}}

\* The validator cache after the calls validator_from_annotation(a), a in calls.
SgValidatorCacheAfter(reg, c, calls) ==
    [k \in DOMAIN c.validator \cup {Key(a) : a \in UNION {SgValidatorNew(reg, c, b) : b \in calls}} |->
        IF k \in DOMAIN c.validator THEN c.validator[k]
        ELSE SgValidatorFrom(reg, c,
                 CHOOSE a \in UNION {SgValidatorNew(reg, c, b) : b \in calls} : Key(a) = k)]

RECURSIVE SgCreate(_, _, _, _)
RECURSIVE SgCreateCalls(_, _, _, _)

\* union_converter, tuple_converter and list_converter read their validators
\* through the cached validator_from_annotation; the strict union creator reads none.
SgCreatorCalls(annotation, first_in_union) ==
    IF is_union(get_origin(annotation))
    THEN IF first_in_union THEN <<>> ELSE annotation.args
    ELSE <<annotation>>

SgCreatorValidators(reg, c, annotation, first_in_union) ==
    [i \in 1..Len(SgCreatorCalls(annotation, first_in_union)) |->
        SgValidatorFrom(reg, c, SgCreatorCalls(annotation, first_in_union)[i])]

\* The converter a built-in creator returns for the inner converters and the
\* validators it read, or the first exception of either.
SgCompositeConverter(origin, first_in_union, inner, validators) ==
    IF FirstRaise(inner) # NoFn THEN FirstRaise(inner)
    ELSE IF FirstRaise(validators) # NoFn THEN FirstRaise(validators)
    ELSE IF is_union(origin)
         THEN IF first_in_union THEN Fn("strict_union_converter", "", inner, <<>>, <<>>)
              ELSE Fn("sg_union_converter", "", inner, validators, <<>>)
    ELSE IF origin = Type("tuple") THEN Fn("sg_tuple_converter", "", inner, validators, <<>>)
    ELSE Fn("dyn_converter", "list", inner, validators, <<>>)

SgHasCreator(origin) == is_union(origin) \/ origin \in {Type("tuple"), Type("list")}

\* The body of _create_value_to_annotation_converter on a normalised annotation.
SgCreateResolved(reg, c, annotation, first_in_union) ==
    IF annotation = ResolveError THEN Raise(ResolveError.name)
    ELSE IF IsType(annotation)
         THEN IF Has(reg.converters, annotation) THEN Leaf(reg.converters[Key(annotation)])
              ELSE IF annotation = TNone THEN Fn("none_converter", "", <<>>, <<>>, <<>>)
              ELSE Fn("type_converter", annotation.name, <<>>, <<>>, <<>>)
    ELSE IF ~HasOrigin(annotation) THEN Raise("ConvertingToAnnotationTypeError")
    ELSE IF Has(reg.converters, get_origin(annotation))
         THEN Leaf(reg.converters[Key(get_origin(annotation))])
    ELSE IF SgHasCreator(get_origin(annotation))
         THEN SgCompositeConverter(
                  get_origin(annotation), first_in_union,
                  [i \in 1..Len(annotation.args) |-> SgCreate(reg, c, annotation.args[i], first_in_union)],
                  SgCreatorValidators(reg, c, annotation, first_in_union))
    ELSE SgCreate(reg, c, get_origin(annotation), first_in_union)

SgCreate(reg, c, raw, first_in_union) ==
    SgCreateResolved(reg, c, resolve_annotation_types(raw), first_in_union)

\* The validator_from_annotation calls of the inner derivations, argument by
\* argument up to the first argument whose derivation raises.
RECURSIVE SgInnerCalls(_, _, _, _, _)
SgInnerCalls(reg, c, args, first_in_union, k) ==
    IF k > Len(args) THEN <<>>
    ELSE IF IsRaise(SgCreate(reg, c, args[k], first_in_union))
         THEN SgCreateCalls(reg, c, args[k], first_in_union)
    ELSE SgCreateCalls(reg, c, args[k], first_in_union)
         \o SgInnerCalls(reg, c, args, first_in_union, k + 1)

\* The validator_from_annotation calls one converter derivation makes, in order.
SgCreateCallsResolved(reg, c, annotation, first_in_union) ==
    IF annotation = ResolveError \/ IsType(annotation) \/ ~HasOrigin(annotation) THEN <<>>
    ELSE IF Has(reg.converters, get_origin(annotation)) THEN <<>>
    ELSE IF SgHasCreator(get_origin(annotation))
         THEN SgInnerCalls(reg, c, annotation.args, first_in_union, 1)
              \o (IF FirstRaise([i \in 1..Len(annotation.args) |->
                                    SgCreate(reg, c, annotation.args[i], first_in_union)]) # NoFn
                  THEN <<>>
                  ELSE UpToFirstRaise(reg, c, SgCreatorCalls(annotation, first_in_union), 1))
    ELSE SgCreateCalls(reg, c, get_origin(annotation), first_in_union)

SgCreateCalls(reg, c, raw, first_in_union) ==
    SgCreateCallsResolved(reg, c, resolve_annotation_types(raw), first_in_union)

SeqRange(s) == {s[i] : i \in 1..Len(s)}

\* converter_from_annotation under lru_cache, keyed by both arguments: the cached
\* function, or the wrapper around the converter just created.
SgWrapped(conv) == IF IsRaise(conv) THEN conv ELSE Fn("sg_wrap", "", <<conv>>, <<>>, <<>>)
SgConverterKey(raw, first_in_union) == <<Key(raw), first_in_union>>
SgConverterFrom(reg, c, raw, first_in_union) ==
    IF SgConverterKey(raw, first_in_union) \in DOMAIN c.converter
    THEN c.converter[SgConverterKey(raw, first_in_union)]
    ELSE SgWrapped(SgCreate(reg, c, raw, first_in_union))

\* Both caches after converter_from_annotation(raw, first_in_union).
SgCacheAfterConverter(reg, c, raw, first_in_union, made) ==
    IF SgConverterKey(raw, first_in_union) \in DOMAIN c.converter THEN c
    ELSE [validator |-> SgValidatorCacheAfter(reg, c, SeqRange(SgCreateCalls(reg, c, raw, first_in_union))),
          converter |-> IF IsRaise(made) THEN c.converter
                        ELSE Put(c.converter, SgConverterKey(raw, first_in_union), made)]

\* The variables of the other engines, which an sg_lib call leaves alone.
SgOthers == UNCHANGED <<processors, cache, nReg, lastLeaf, amReg, cn, stack, th, classes>>

SgCanRegister == sgReg.n < MaxSgRegistrations

\* TypeRegistry.register_validator: store, then validator_from_annotation.cache_clear().
SgRegisterValidator ==
    \E special_type \in SgTypes, validator \in SgValidators :
        /\ SgCanRegister
        /\ sgReg' = [sgReg EXCEPT !.validators = Put(@, Key(special_type), validator), !.n = @ + 1]
        /\ sgCache' = [sgCache EXCEPT !.validator = EmptyMap]
        /\ ret' = Returned("sg.register_validator", special_type)
        /\ SgOthers

\* TypeRegistry.register_converter: store, then converter_from_annotation.cache_clear().
SgRegisterConverter ==
    \E special_type \in SgTypes, converter \in SgConverters :
        /\ SgCanRegister
        /\ sgReg' = [sgReg EXCEPT !.converters = Put(@, Key(special_type), converter), !.n = @ + 1]
        /\ sgCache' = [sgCache EXCEPT !.converter = EmptyMap]
        /\ ret' = Returned("sg.register_converter", special_type)
        /\ SgOthers

\* TypeRegistry.unregister_validator: self.__validators.pop(special_type, None).
SgUnregisterValidator ==
    \E special_type \in SgTypes :
        /\ SgCanRegister
        /\ sgReg' = [sgReg EXCEPT !.validators = Pop(@, Key(special_type)), !.n = @ + 1]
        /\ ret' = Returned("sg.unregister_validator", special_type)
        /\ UNCHANGED sgCache
        /\ SgOthers

\* TypeRegistry.unregister_converter: self.__converters.pop(special_type, None).
SgUnregisterConverter ==
    \E special_type \in SgTypes :
        /\ SgCanRegister
        /\ sgReg' = [sgReg EXCEPT !.converters = Pop(@, Key(special_type)), !.n = @ + 1]
        /\ ret' = Returned("sg.unregister_converter", special_type)
        /\ UNCHANGED sgCache
        /\ SgOthers

\* validator_from_annotation(annotation)
SgValidatorFromAnnotation ==
    \E annotation \in SgAnnotations :
        /\ ret' = Ret("sg.validator_from_annotation", annotation,
                      SgValidatorFrom(sgReg, sgCache, annotation), NoFn, NoFn, FALSE)
        /\ sgCache' = [sgCache EXCEPT !.validator = SgValidatorCacheAfter(sgReg, sgCache, {annotation})]
        /\ UNCHANGED sgReg
        /\ SgOthers

\* converter_from_annotation(annotation, first_in_union)
SgConverterFromAnnotation ==
    \E annotation \in SgAnnotations, first_in_union \in BOOLEAN :
        /\ ret' = Ret("sg.converter_from_annotation", annotation, NoFn, NoFn,
                      SgConverterFrom(sgReg, sgCache, annotation, first_in_union), first_in_union)
        /\ sgCache' = SgCacheAfterConverter(sgReg, sgCache, annotation, first_in_union,
                                            SgConverterFrom(sgReg, sgCache, annotation, first_in_union))
        /\ UNCHANGED sgReg
        /\ SgOthers

NextSg ==
    \/ SgRegisterValidator
    \/ SgRegisterConverter
    \/ SgUnregisterValidator
    \/ SgUnregisterConverter
    \/ SgValidatorFromAnnotation
    \/ SgConverterFromAnnotation

SpecSg == Init /\ [][NextSg]_vars

(***************************************************************************)
(* Properties of the sg_lib registry.                                      *)
(***************************************************************************)

\* The converter the generic derivation gives for a type when nothing is
\* registered and nothing is cached.
SgGenericConverter(annotation) ==
    SgWrapped(SgCreate(SgEmptyRegistry, SgEmptyCache, annotation, FALSE))

\* C3: registering a custom converter for type T makes convert(T, x) use it in
\* preference to generic derivation, and after unregistering it convert(T, x)
\* behaves exactly as the generic derivation did before the registration: the
\* function converter_from_annotation(T) returns applies the converter registered
\* for T when there is one, and behaves as the generic converter when there is none.
C3_UnregisterRestoresGeneric ==
    (ret.op = "sg.converter_from_annotation" /\ ret.ann \in SgTypes)
        => IF Has(sgReg.converters, ret.ann)
           THEN SameBehaviour("c", ret.converter, Leaf(sgReg.converters[Key(ret.ann)]))
           ELSE SameBehaviour("c", ret.converter, SgGenericConverter(ret.ann))

(***************************************************************************)
(* sg_lib typing.annotations_manager: the defaulting half of the class     *)
(* AnnotationsManager.  amReg holds the defaulter register, the defaulter  *)
(* creator register and the number of registrations made.                  *)
(***************************************************************************)
MaxAmRegistrations == 2

AmDefaulterKeys == {TInt, Type("tuple")}
AmCreatorKeys == {Type("tuple")}
AmDefaulters == {"dStrA", "dInt1"}
AmDefaulterCreators == {"ucDefA"}
AmAnnotations ==
    {TInt, TStr, TNone, TCls, OptionalInt, UnionIntStr, UnionStrInt, UnionClsInt,
     UnionNoneCls, TupleIntStr, ListInt, TypeVarT}

\* is_union of annotations_manager: get_origin(annotation) is Union or UnionType,
\* which holds of a parameterised union only, never of the bare Union.
AmIsUnion(d) == d.k = "alias" /\ d.name = "Union"
AmIsOptional(d) == AmIsUnion(d) /\ \E i \in 1..Len(d.args) : d.args[i] = TNone

RECURSIVE AmDefaulterFrom(_, _)

\* A registered creator applied to the inner defaulters and the annotation.
AmCreated(creator, inner) ==
    IF FirstRaise(inner) # NoFn THEN FirstRaise(inner)
    ELSE IF creator = "ucDefA" THEN Leaf("ucDefA.defaulter")
    ELSE NotImpl

\* tuple_defaulter(*(defaulter_from_annotation(arg) for arg in get_args(annotation)))
AmTupleDefaulter(inner) ==
    IF FirstRaise(inner) # NoFn THEN FirstRaise(inner)
    ELSE Fn("tuple_defaulter", "", inner, <<>>, <<>>)

\* annotation() as the validity test of a type: any exception of the call
\* becomes DefaultingAnnotationError.
AmTypeDefaulter(name, made) ==
    IF IsErr(made) THEN Raise("DefaultingAnnotationError")
    ELSE Fn("type", name, <<>>, <<>>, <<>>)

\* defaulter_from_annotation from the origin on.  The union test is made on the
\* origin, and its first-variant branch reads get_args(origin)[0].
AmDefaulterFromOrigin(reg, annotation, origin, inner) ==
    IF Has(reg.creators, origin) THEN AmCreated(reg.creators[Key(origin)], inner)
    ELSE IF Has(reg.defaulters, origin) THEN Leaf(reg.defaulters[Key(origin)])
    ELSE IF AmIsUnion(origin)
         THEN IF AmIsOptional(annotation) THEN Fn("type", "NoneType", <<>>, <<>>, <<>>)
              ELSE IF origin.args = <<>> THEN Raise("IndexError")
              ELSE AmDefaulterFrom(reg, origin.args[1])
    ELSE IF origin = Type("tuple") THEN AmTupleDefaulter(inner)
    ELSE AmDefaulterFrom(reg, origin)

\* AnnotationsManager.defaulter_from_annotation on a normalised annotation.
AmDefaulterResolved(reg, annotation) ==
    IF annotation = ResolveError THEN Raise(ResolveError.name)
    ELSE IF Has(reg.defaulters, annotation) THEN Leaf(reg.defaulters[Key(annotation)])
    ELSE IF annotation = TNone THEN Fn("type", "NoneType", <<>>, <<>>, <<>>)
    ELSE IF IsType(annotation) THEN AmTypeDefaulter(annotation.name, ZeroArg(annotation.name))
    ELSE IF ~HasOrigin(annotation) THEN Raise("DefaultingAnnotationError")
    ELSE AmDefaulterFromOrigin(
             reg, annotation, get_origin(annotation),
             [i \in 1..Len(annotation.args) |-> AmDefaulterFrom(reg, annotation.args[i])])

AmDefaulterFrom(reg, raw) == AmDefaulterResolved(reg, resolve_annotation_types(raw))

\* The variables of the other engines, which an AnnotationsManager call leaves alone.
AmOthers == UNCHANGED <<processors, cache, nReg, lastLeaf, sgReg, sgCache, cn, stack, th, classes>>

\* AnnotationsManager.register_custom_type_defaulter
AmRegisterCustomTypeDefaulter ==
    \E special_type \in AmDefaulterKeys, defaulter \in AmDefaulters :
        /\ amReg.n < MaxAmRegistrations
        /\ amReg' = [amReg EXCEPT !.defaulters = Put(@, Key(special_type), defaulter), !.n = @ + 1]
        /\ ret' = Returned("am.register_custom_type_defaulter", special_type)
        /\ AmOthers

\* AnnotationsManager.register_custom_type_defaulter_creator
AmRegisterCustomTypeDefaulterCreator ==
    \E special_type \in AmCreatorKeys, creator \in AmDefaulterCreators :
        /\ amReg.n < MaxAmRegistrations
        /\ amReg' = [amReg EXCEPT !.creators = Put(@, Key(special_type), creator), !.n = @ + 1]
        /\ ret' = Returned("am.register_custom_type_defaulter_creator", special_type)
        /\ AmOthers

\* AnnotationsManager.defaulter_from_annotation(annotation)
AmDefaulterFromAnnotation ==
    \E annotation \in AmAnnotations :
        /\ ret' = Ret("am.defaulter_from_annotation", annotation, NoFn,
                      AmDefaulterFrom(amReg, annotation), NoFn, FALSE)
        /\ UNCHANGED amReg
        /\ AmOthers

NextAm ==
    \/ AmRegisterCustomTypeDefaulter
    \/ AmRegisterCustomTypeDefaulterCreator
    \/ AmDefaulterFromAnnotation

SpecAm == Init /\ [][NextAm]_vars

(***************************************************************************)
(* Properties of AnnotationsManager.                                       *)
(***************************************************************************)

\* C10: union default policy.  The default of a union that includes the
\* absence-of-value variant is the absence marker whatever the other variants and
\* their order; the default of a union without it is the default of the first
\* listed variant, and defaulting fails when that first variant has no default.
C10_UnionDefaultPolicy ==
    (ret.op = "am.defaulter_from_annotation" /\ AmIsUnion(ret.ann))
        => IF AmIsOptional(ret.ann)
           THEN IsFn(ret.defaulter) /\ ApplyDefaulter(ret.defaulter) = NoneV
           ELSE SameBehaviour("d", ret.defaulter, AmDefaulterFrom(amReg, ret.ann.args[1]))

(***************************************************************************)
(* Properties of the built-in entries of metacore.                         *)
(***************************************************************************)

CompositeValidators == {"tuple_validator", "dyn_validator", "dict_validator"}

\* The value is of the container category of a composite validator and, for a
\* fixed tuple, of its arity.
RightContainer(fn, v) ==
    CASE fn.f = "tuple_validator" -> v.t = "tuple" /\ Len(v.items) = Len(fn.inner)
      [] fn.f = "dyn_validator" -> v.t = fn.id
      [] OTHER -> v.t = "dict"

\* The levels the inner validators give the elements (the keys, then the values,
\* of a dict).
ElementLevels(fn, v) ==
    CASE fn.f = "tuple_validator" -> MapValidators(fn.inner, v.items)
      [] fn.f = "dyn_validator" -> MapValidator(fn.inner[1], Iterate(v))
      [] OTHER -> MapValidator(fn.inner[1], DictKeys(v)) \o MapValidator(fn.inner[2], DictValues(v))

AllFull(levels) == \A i \in 1..Len(levels) : levels[i] = FULL

\* C11: a built-in composite validator (fixed tuple, list, set, dict) returns NONE
\* iff the value is not of the container category or, for a fixed tuple, its length
\* differs from the arity; FULL iff the container matches and every element (every
\* key and every value of a dict) validates FULL; PARTIAL in every remaining case.
C11_CompositeLevels ==
    (ret.op = "validator_from_annotation" /\ ret.validator.f \in CompositeValidators)
        => \A v \in Values :
              LET level == ApplyValidator(ret.validator, v)
                  right == RightContainer(ret.validator, v)
              IN  /\ level = NONE <=> ~right
                  /\ level = FULL <=> (right /\ AllFull(ElementLevels(ret.validator, v)))
                  /\ level = PARTIAL <=> (right /\ ~AllFull(ElementLevels(ret.validator, v)))

\* C11 witness: the validator of list[int] was derived while int has a validator
\* that returns PARTIAL; the list [1] has all its elements PARTIAL and is PARTIAL.
C11_Witness ==
    /\ ret.op = "validator_from_annotation"
    /\ ret.ann = ListInt
    /\ ret.validator.f = "dyn_validator"
    /\ ElementLevels(ret.validator, ListV(<<IntV("1")>>)) = <<PARTIAL>>
    /\ ApplyValidator(ret.validator, ListV(<<IntV("1")>>)) = PARTIAL

\* Each element converted by the converter at its position: the tuple of the
\* results, or the first exception an element converter raises.
Positional(fn, v) ==
    LET res == [i \in 1..Len(fn.inner) |-> ApplyConverter(fn.inner[i], Iterate(v)[i])]
    IN  FirstErrOr(res, TupleV(res))

\* C12: fixed-tuple conversion checks the length first.  A value whose length
\* differs from the arity makes convert raise the size-mismatch conversion error,
\* whatever the element converters and the full-match check would give; a value of
\* the right length goes through the full-match check (a FULL value is returned
\* unchanged) and otherwise has each element converted by the converter at its
\* position.
C12_TupleLengthFirst ==
    (ConverterReturned /\ ret.converter.f = "tuple_converter")
        => \A v \in Values :
              HasLen(v) =>
                 ApplyConverter(ret.converter, v) =
                    IF LenOf(v) # Len(ret.converter.inner)
                    THEN ErrV("ConvertingToAnnotationTypeError")
                    ELSE IF ApplyValidator(ret.converter.aux[1], v) = FULL THEN v
                    ELSE Positional(ret.converter, v)

\* C12 witness: the converter of tuple[int, str] raises the conversion error on the
\* 1-tuple (1,) and converts ('1', 2) position by position to (1, '2').
C12_Witness ==
    /\ ConverterReturned
    /\ ret.ann = TupleIntStr
    /\ ret.converter.f = "tuple_converter"
    /\ ApplyConverter(ret.converter, TupleV(<<IntV("1")>>)) = ErrV("ConvertingToAnnotationTypeError")
    /\ ApplyConverter(ret.converter, TupleV(<<StrV("1"), IntV("2")>>))
          = TupleV(<<IntV("1"), StrV("2")>>)

\* C13: every failure of convert(D, v), for any annotation D and any value v
\* (values of the wrong shape for a tuple or dict annotation included), is a
\* conversion error: the converter derived for D raises nothing else.
C13_OnlyConversionErrors ==
    ConverterReturned
        => \A v \in Values :
              IsErr(ApplyConverter(ret.converter, v))
                 => ApplyConverter(ret.converter, v) = ErrV("ConvertingToAnnotationTypeError")

IsLiteral(annotation) == annotation.k = "alias" /\ annotation.name = "Literal"
AmongLiterals(annotation, v) == \E i \in 1..Len(annotation.lits) : annotation.lits[i] = v

\* C14: Literal policy.  validate(Literal(v1..vn), v) is FULL iff v equals one of
\* the literals and NONE otherwise, never PARTIAL; convert returns v unchanged when
\* v is among the literals and otherwise returns the first listed literal v1
\* without raising.
C14_LiteralPolicy ==
    /\ (ret.op = "validator_from_annotation" /\ IsLiteral(ret.ann) /\ IsFn(ret.validator))
          => \A v \in Values :
                ApplyValidator(ret.validator, v) = IF AmongLiterals(ret.ann, v) THEN FULL ELSE NONE
    /\ (ConverterReturned /\ IsLiteral(ret.ann))
          => \A v \in Values :
                ApplyConverter(ret.converter, v) = IF AmongLiterals(ret.ann, v) THEN v ELSE ret.ann.lits[1]

\* C14 witness: the converter of Literal['a', 'b'] keeps 'b' and turns 1 into 'a'.
C14_Witness ==
    /\ ConverterReturned
    /\ ret.ann = LiteralAB
    /\ ApplyConverter(ret.converter, StrV("b")) = StrV("b")
    /\ ApplyConverter(ret.converter, IntV("1")) = StrV("a")

(***************************************************************************)
(* The wrappers Final[T] and ClassVar[T].                                  *)
(***************************************************************************)
IsWrapper(annotation) ==
    /\ annotation.k = "alias"
    /\ annotation.name \in {"Final", "ClassVar"}
    /\ Len(annotation.args) = 1

SingleDeriveOps ==
    {"validator_from_annotation", "defaulter_from_annotation", "converter_from_annotation"}

\* The operation of a derivation call, and the processor the call returned.
DerivedOperation(call) ==
    CASE call = "validator_from_annotation" -> "v"
      [] call = "defaulter_from_annotation" -> "d"
      [] OTHER -> "c"
DerivedProcessor(r) ==
    CASE r.op = "validator_from_annotation" -> r.validator
      [] r.op = "defaulter_from_annotation" -> r.defaulter
      [] OTHER -> r.converter

\* C15: wrapper transparency.  What validator_from_annotation,
\* defaulter_from_annotation and converter_from_annotation derive for Final[T] or
\* ClassVar[T] gives on every value the result of what the registry derives for T;
\* the derivation for the wrapper fails exactly when the derivation for T fails.
C15_WrapperTransparency ==
    (ret.op \in SingleDeriveOps /\ ~ret.fiu /\ IsWrapper(ret.ann))
        => LET op == DerivedOperation(ret.op)
               inner == PubFrom(op, DefaultRegistry, ret.ann.args[1])
           IN  \/ IsRaise(DerivedProcessor(ret)) /\ IsRaise(inner)
               \/ /\ IsFn(DerivedProcessor(ret))
                  /\ SameBehaviour(op, DerivedProcessor(ret), inner)

\* Final[int] was derived while a converter leaf is registered for int: the wrapper's
\* converter is that leaf.
C15_Witness ==
    /\ ret.op = "converter_from_annotation" /\ ~ret.fiu /\ ret.ann = FinalInt
    /\ lastLeaf[Key(TInt)].convert = "cZero"
    /\ ApplyConverter(ret.converter, StrV("1")) = IntV("0")

(***************************************************************************)
(* The cast marker CastType[T].                                            *)
(***************************************************************************)
IsCast(annotation) == annotation.k = "alias" /\ annotation.name = "CastType"

\* The cast-marked variants of a union, in listed order.
CastVariants(annotation) ==
    IF annotation.k = "alias" /\ annotation.name = "Union"
    THEN SelectSeq(annotation.args, IsCast)
    ELSE <<>>

\* C16: cast marker.  The converter derived for a union with a variant CastType[T]
\* gives on every value what the converter derived for T gives, whatever the levels
\* of the variants' validators; the validator derived for CastType[T] returns FULL on
\* every value.
C16_CastMarker ==
    /\ (ConverterReturned /\ CastVariants(ret.ann) # <<>>)
          => \A v \in Values :
                ApplyConverter(ret.converter, v) =
                   ApplyConverter(PubFrom("c", DefaultRegistry, CastVariants(ret.ann)[1].args[1]), v)
    /\ (ret.op = "validator_from_annotation" /\ IsCast(ret.ann))
          => /\ IsFn(ret.validator)
             /\ \A v \in Values : ApplyValidator(ret.validator, v) = FULL

(***************************************************************************)
(* metacore: ConstantsMetaclass (constants.py).  cn holds one constant     *)
(* class: the members its body declares, the outcome of its creation, its  *)
(* attributes, and what the last operation on it raised.  Its conversions  *)
(* go through the default registry.                                        *)
(***************************************************************************)
\* Bound on the number of members a class body declares.
MaxMembers == 2

\* A forward reference, a member declared without annotation, and a member declared
\* without value.
Fwd(name) == Ann("fwd", name, <<>>, <<>>)
Unannotated == Ann("unannotated", "", <<>>, <<>>)
Missing == Val("missing", "", <<>>, {})

MemberNames == {"A", "_p", "__init__"}
MemberAnnotations == {TInt, TupleIntStr, Fwd("Nope")}
MemberValues == {IntV("1"), StrV("a")}
AttributeNames == MemberNames \cup {"NEW"}

\* k.startswith("_")
StartsWithUnderscore(k) == k \in {"_p", "__init__", "__new__"}

\* The declarations a class body can hold: annotated with a value, annotated without,
\* or a plain assignment.
Declarations ==
    {d \in [name : MemberNames, ann : MemberAnnotations \cup {Unannotated},
            value : MemberValues \cup {Missing}] :
        ~(d.ann = Unannotated /\ d.value = Missing)}
DistinctNames(body) == \A i, j \in 1..Len(body) : body[i].name = body[j].name => i = j
Bodies ==
    {body \in UNION {[1..n -> Declarations] : n \in 0..MaxMembers} : DistinctNames(body)}

\* The namespace a class body leaves, and its __annotations__ in declaration order.
NamespaceOf(body) ==
    [k \in {body[i].name : i \in {j \in 1..Len(body) : body[j].value # Missing}} |->
        (CHOOSE d \in SeqRange(body) : d.name = k).value]
AnnotationsOf(body) == SelectSeq(body, LAMBDA d : d.ann # Unannotated)
Names(decls) == [i \in 1..Len(decls) |-> decls[i].name]

\* AnnotationsRegistery.convert_to_annotation
convert_to_annotation(R, annotation, value) ==
    LET converter == PubFrom("c", R, annotation)
    IN  IF IsRaise(converter) THEN ErrV(converter.id) ELSE ApplyConverter(converter, value)

\* _verify_functions
VerifyFunctionsFails(namespace) ==
    "__init__" \in DOMAIN namespace \/ "__new__" \in DOMAIN namespace

\* The __constants__ tuple of ConstantsMetaclass.__new__ for a class whose only base
\* is ConstantNamespace, which has no constants.
ConstantsOf(annotations, allow_private) ==
    SelectSeq(Names(annotations), LAMBDA k : allow_private \/ ~StartsWithUnderscore(k))

\* _verify_annotations_and_coerce from the i-th annotation on.  st holds the
\* namespace, the members convert_to_annotation was called for, and the exception
\* raised so far with its cause.
RECURSIVE CoerceFrom(_, _, _, _)
CoerceFrom(annotations, constants, st, i) ==
    IF i > Len(annotations) \/ st.error # "" THEN st
    ELSE LET key == annotations[i].name
         IN  IF key \notin SeqRange(constants) THEN CoerceFrom(annotations, constants, st, i + 1)
             ELSE IF key \notin DOMAIN st.namespace
             THEN [st EXCEPT !.error = "ConstantsCompositionError"]
             ELSE LET value == convert_to_annotation(DefaultRegistry,
                                                     resolve_annotation_types(annotations[i].ann),
                                                     st.namespace[key])
                      called == [st EXCEPT !.calls = Append(@, key)]
                  IN  IF IsErr(value)
                      THEN [called EXCEPT !.error = "ConstantsCompositionError",
                                          !.cause = value.a]
                      ELSE CoerceFrom(annotations, constants,
                                      [called EXCEPT !.namespace[key] = value], i + 1)

\* resolve_annotation_types(namespace["__annotations__"]) raises when one annotation
\* does not resolve.
Unresolved(annotations) ==
    \E i \in 1..Len(annotations) : resolve_annotation_types(annotations[i].ann) = ResolveError

_verify_annotations_and_coerce(namespace, annotations, constants) ==
    LET st == [namespace |-> namespace, calls |-> <<>>, error |-> "", cause |-> ""]
    IN  IF annotations = <<>> THEN st
        ELSE IF Unresolved(annotations) THEN [st EXCEPT !.error = "NameError"]
        ELSE CoerceFrom(annotations, constants, st, 1)

\* ConstantsMetaclass.__new__: the class, or the exception that ends its creation.
NewClass(body, allow_private) ==
    LET namespace == NamespaceOf(body)
        annotations == AnnotationsOf(body)
        constants == ConstantsOf(annotations, allow_private)
        st == _verify_annotations_and_coerce(namespace, annotations, constants)
        declared == [CnNoClass EXCEPT !.body = body, !.allow_private = allow_private]
    IN  IF VerifyFunctionsFails(namespace)
        THEN [declared EXCEPT !.status = "failed", !.error = "ConstantsCompositionError",
                              !.last = [op |-> "class", name |-> "", error |-> "ConstantsCompositionError"]]
        ELSE IF st.error # ""
        THEN [declared EXCEPT !.status = "failed", !.error = st.error, !.cause = st.cause,
                              !.calls = st.calls,
                              !.last = [op |-> "class", name |-> "", error |-> st.error]]
        ELSE [declared EXCEPT !.status = "created", !.constants = constants,
                              !.attrs = st.namespace, !.created = st.namespace,
                              !.calls = st.calls,
                              !.last = [op |-> "class", name |-> "", error |-> ""]]

CnOthers == UNCHANGED <<processors, cache, nReg, ret, lastLeaf, sgReg, sgCache, amReg, stack, th, classes>>

\* class K(ConstantNamespace, allow_private=...): <body>
CnNewClass ==
    \E body \in Bodies, allow_private \in BOOLEAN :
        /\ cn.status = "none"
        /\ cn' = NewClass(body, allow_private)
        /\ CnOthers

\* K.name = value: ConstantsMetaclass.__setattr__
CnSetAttr ==
    \E name \in AttributeNames, value \in MemberValues :
        /\ cn.status = "created"
        /\ cn' = [cn EXCEPT !.last = [op |-> "setattr", name |-> name,
                                      error |-> "ConstantsModificationError"]]
        /\ CnOthers

\* del K.name: ConstantsMetaclass defines no __delattr__, so type.__delattr__ runs.
CnDelAttr ==
    \E name \in AttributeNames :
        /\ cn.status = "created"
        /\ cn' = IF name \in DOMAIN cn.attrs
                 THEN [cn EXCEPT !.attrs = Pop(@, name),
                                 !.last = [op |-> "delattr", name |-> name, error |-> ""]]
                 ELSE [cn EXCEPT !.last = [op |-> "delattr", name |-> name,
                                           error |-> "AttributeError"]]
        /\ CnOthers

\* K(): the __new__ that _instantiation_error put in the namespace.
CnInstantiate ==
    /\ cn.status = "created"
    /\ cn' = [cn EXCEPT !.last = [op |-> "call", name |-> "",
                                  error |-> "ConstantsInstantiationError"]]
    /\ CnOthers

NextCn ==
    \/ CnNewClass
    \/ CnSetAttr
    \/ CnDelAttr
    \/ CnInstantiate

SpecCn == Init /\ [][NextCn]_vars

\* ConstantsMetaclass.items: the (name, value) pairs of the constants, or the
\* AttributeError of a getattr.
CnItems(attrs, constants) ==
    IF \E i \in 1..Len(constants) : constants[i] \notin DOMAIN attrs
    THEN [error |-> "AttributeError", items |-> <<>>]
    ELSE [error |-> "",
          items |-> [i \in 1..Len(constants) |-> <<constants[i], attrs[constants[i]]>>]]

(***************************************************************************)
(* Properties of constant classes.                                         *)
(***************************************************************************)
\* C17: a constant class cannot be mutated after creation.  Every attempt to set or
\* delete a class attribute raises ConstantsModificationError, and after any
\* sequence of attempts items() gives the names and values fixed at creation.
C17_ConstantClassImmutable ==
    cn.status = "created"
        => /\ cn.last.op \in {"setattr", "delattr"}
                 => cn.last.error = "ConstantsModificationError"
           /\ CnItems(cn.attrs, cn.constants) = CnItems(cn.created, cn.constants)

\* The members a class body declares with an annotation and a value, and those it
\* declares with an annotation only.
AnnotatedWithValue(body) ==
    {d \in SeqRange(body) : d.ann # Unannotated /\ d.value # Missing}
AnnotatedWithoutValue(body) ==
    {d \in SeqRange(body) : d.ann # Unannotated /\ d.value = Missing}
Converted(d) == convert_to_annotation(DefaultRegistry, d.ann, d.value)
TimesCalled(calls, name) == Cardinality({i \in 1..Len(calls) : calls[i] = name})

\* C18: at class creation convert is applied exactly once to the value of each
\* annotated member; when one of these conversions fails the class is not created,
\* and the ConstantsCompositionError raised for a failed conversion chains the
\* conversion's error.
C18_ConvertOncePerMember ==
    /\ cn.status = "created"
          => \A d \in AnnotatedWithValue(cn.body) :
                /\ TimesCalled(cn.calls, d.name) = 1
                /\ cn.created[d.name] = Converted(d)
    /\ (cn.status # "none" /\ \E d \in AnnotatedWithValue(cn.body) : IsErr(Converted(d)))
          => cn.status = "failed"
    /\ \A d \in AnnotatedWithValue(cn.body) :
          (cn.calls # <<>> /\ d.name = cn.calls[Len(cn.calls)] /\ IsErr(Converted(d)))
             => /\ cn.error = "ConstantsCompositionError"
                /\ ErrV(cn.cause) = Converted(d)

\* C19: a class body that declares an annotated member without a value does not
\* become a class: its creation raises ConstantsCompositionError, whatever the
\* member's name and whatever allow_private.
C19_AnnotatedNeedsValue ==
    (cn.status # "none" /\ AnnotatedWithoutValue(cn.body) # {})
        => cn.status = "failed" /\ cn.error = "ConstantsCompositionError"

(***************************************************************************)
(* The order of the derivation rules of the default registry.              *)
(***************************************************************************)
\* The attribute of an entry that holds the leaf of an operation.
LeafField(op) ==
    CASE op = "v" -> "validate"
      [] op = "d" -> "default"
      [] OTHER -> "convert"

\* The six derivation rules, numbered in the order of their priority: whether a
\* rule applies to the annotation, and the function it gives.
RuleApplies(n, op, R, annotation) ==
    LET origin_entry == get_processor(R.procs, get_origin(annotation))
    IN  CASE n = 1 -> get_processor(R.procs, annotation)[LeafField(op)] # "none"
          [] n = 2 -> IsType(annotation)
          [] n = 3 -> /\ HasOrigin(annotation)
                      /\ HasEntry(origin_entry)
                      /\ RawCreate(op, origin_entry, annotation, R) # NotImpl
          [] n = 4 -> HasOrigin(annotation) /\ origin_entry[LeafField(op)] # "none"
          [] n = 5 -> HasOrigin(annotation) /\ is_union(get_origin(annotation))
          [] OTHER -> HasOrigin(annotation)

AtomicRule(op, annotation) ==
    CASE op = "v" -> Fn("isinstance", annotation.name, <<>>, <<>>, <<>>)
      [] op = "d" -> AtomicDefaulter(annotation.name, ZeroArg(annotation.name))
      [] OTHER -> Fn("type_converter", annotation.name, <<>>, <<>>, <<>>)

UnionRule(op, R, annotation) ==
    CASE op = "v" -> UnionValidatorOf(InnerPrivate("v", R, annotation))
      [] op = "d" ->
            IF is_optional(annotation) THEN Fn("type", "NoneType", <<>>, <<>>, <<>>)
            ELSE Private("d", R, annotation.args[1])
      [] OTHER -> union_converter(R, annotation)

RuleGives(n, op, R, annotation) ==
    CASE n = 1 -> Leaf(get_processor(R.procs, annotation)[LeafField(op)])
      [] n = 2 -> AtomicRule(op, annotation)
      [] n = 3 -> RawCreate(op, get_processor(R.procs, get_origin(annotation)), annotation, R)
      [] n = 4 -> Leaf(get_processor(R.procs, get_origin(annotation))[LeafField(op)])
      [] n = 5 -> UnionRule(op, R, annotation)
      [] OTHER -> Private(op, R, get_origin(annotation))

ApplicableRules(op, R, annotation) == {n \in 1..6 : RuleApplies(n, op, R, annotation)}
FirstApplicable(op, R, annotation) ==
    CHOOSE n \in ApplicableRules(op, R, annotation) :
        \A m \in ApplicableRules(op, R, annotation) : n <= m

\* C20: derivation priority.  What validator_from_annotation,
\* defaulter_from_annotation and converter_from_annotation return for D is what the
\* first applicable rule gives, in the order: leaf registered for exactly D; atomic
\* rule; the origin's creator unless it returns NotImplemented; leaf registered for
\* the origin; union rule; derivation of the origin.  A leaf registered for exactly
\* D wins over a creator registered for D's origin.
C20_DerivationPriority ==
    (ret.op \in SingleDeriveOps /\ ~ret.fiu /\ resolve_annotation_types(ret.ann) # ResolveError)
        => LET op == DerivedOperation(ret.op)
               annotation == resolve_annotation_types(ret.ann)
           IN  IF ApplicableRules(op, DefaultRegistry, annotation) = {}
               THEN IsRaise(DerivedProcessor(ret))
               ELSE DerivedProcessor(ret) =
                       RuleGives(FirstApplicable(op, DefaultRegistry, annotation),
                                 op, DefaultRegistry, annotation)

\* The converter of Union[int, str] was derived while a converter leaf is registered
\* for Union[int, str] and a converter creator for Union: the leaf is returned.
C20_Witness ==
    /\ ConverterReturned
    /\ Key(ret.ann) = Key(UnionIntStr)
    /\ get_processor(processors, UnionIntStr).convert = "cZero"
    /\ get_processor(processors, Form("Union")).cc = "ucConvZero"
    /\ ret.converter = Leaf("cZero")

(***************************************************************************)
(* Element failures inside container conversions of metacore.  The         *)
(* registrations here hand the default registry converters that raise, and *)
(* the derivations are those of the container annotations.                 *)
(***************************************************************************)
DictIntTupleIntStr == Alias("dict", <<TInt, TupleIntStr>>)
ListTupleIntStr == Alias("list", <<TupleIntStr>>)
ElAnnotations == {ListInt, SetInt, ListTupleIntStr, DictIntStr, DictIntTupleIntStr}
ElConverterKeys == {TInt, TStr}
\* cFail raises ValueError on every value.
ElConverters == {"cZero", "cFail"}
ElValues ==
    Values \cup {DictV(<<StrV("a"), IntV("1")>>), DictV(<<IntV("1"), IntV("1")>>),
                 ListV(<<IntV("1"), StrV("a")>>)}

ElRegisterConverter ==
    RegisterLeaf("register_converter", ElConverterKeys, ElConverters, "convert")
ElRegisterValidator ==
    RegisterLeaf("register_validator", {TInt}, {"vAlwaysPartial"}, "validate")

ElConverterFromAnnotation ==
    \E annotation \in ElAnnotations :
        /\ CanDerive
        /\ ret' = Ret("converter_from_annotation", annotation, NoFn, NoFn,
                      PubFrom("c", DefaultRegistry, annotation), FALSE)
        /\ UNCHANGED <<processors, cache, nReg, lastLeaf>>
        /\ Others

NextEl ==
    \/ ElRegisterConverter
    \/ ElRegisterValidator
    \/ ElConverterFromAnnotation

SpecEl == Init /\ [][NextEl]_vars

\* The converter of an element (of a key or a value for a dict) raises on the value
\* the container converter is given.
SomeFails(fn, elements) ==
    \E i \in 1..Len(elements) : IsErr(ApplyConverter(fn, elements[i]))
ElementFails(fn, v) ==
    CASE fn.f = "dyn_converter" ->
            /\ Iterable(v)
            /\ ApplyValidator(fn.aux[1], v) # FULL
            /\ SomeFails(fn.inner[1], Iterate(v))
      [] fn.f = "dict_converter" ->
            /\ v.t = "dict"
            /\ SomeFails(fn.inner[1], DictKeys(v)) \/ SomeFails(fn.inner[2], DictValues(v))
      [] OTHER -> FALSE

\* C21: container conversion does not suppress element failures.  When the converter
\* of an element of a list or set, or of a key or value of a dict, raises, the
\* container converter raises ConvertingToAnnotationTypeError and returns no
\* container.
C21_ElementFailuresPropagate ==
    (ConverterReturned /\ ret.converter.f \in {"dyn_converter", "dict_converter"})
        => \A v \in ElValues :
              ElementFails(ret.converter, v)
                 => ApplyConverter(ret.converter, v) = ErrV("ConvertingToAnnotationTypeError")

(***************************************************************************)
(* metacore: defaulters of plain types whose zero-argument call fails.     *)
(* Cls.__init__ needs an argument (TypeError); Strict.__init__ takes none  *)
(* and raises ValueError.                                                   *)
(***************************************************************************)
TStrict == Type("Strict")
TupleIntStrict == Alias("tuple", <<TInt, TStrict>>)
DfAnnotations == {TInt, TStr, TNone, TCls, TStrict, TupleIntStr, TupleIntStrict}
DfDefaulterKeys == {TInt, TStr, TCls, TStrict}

DfRegisterDefaulter ==
    RegisterLeaf("register_defaulter", DfDefaulterKeys, UserDefaulters, "default")

DfDefaulterFromAnnotation ==
    \E annotation \in DfAnnotations :
        /\ CanDerive
        /\ ret' = Ret("defaulter_from_annotation", annotation,
                      NoFn, PubFrom("d", DefaultRegistry, annotation), NoFn, FALSE)
        /\ UNCHANGED <<processors, cache, nReg, lastLeaf>>
        /\ Others

NextDf ==
    \/ DfRegisterDefaulter
    \/ DfDefaulterFromAnnotation

SpecDf == Init /\ [][NextDf]_vars

\* The last call asked for the defaulter of a plain type that has no registered
\* default leaf and whose zero-argument call raises.
AtomicConstructionFails ==
    /\ ret.op = "defaulter_from_annotation"
    /\ IsType(ret.ann)
    /\ get_processor(processors, ret.ann).default = "none"
    /\ IsErr(ZeroArg(ret.ann.name))

\* C22: for a plain type with no registered default leaf, any failure of the
\* zero-argument call of the type, whatever it raises, makes
\* defaulter_from_annotation raise DefaultingAnnotationError and nothing else.
C22_AtomicDefaultingError ==
    AtomicConstructionFails => ret.defaulter = Raise("DefaultingAnnotationError")

(***************************************************************************)
(* Descriptors that are neither a type nor subscripted (a bare TypeVar),   *)
(* alone and as an argument of a composite, in both libraries.             *)
(***************************************************************************)
\* sg_lib defaulter_from_annotation on a normalised annotation.  defaulters is
\* the register of TypeRegistry, dc the lru_cache of the function; no defaulter
\* creator is registered (TypeRegistry.__init__ leaves the register empty).
RECURSIVE SgDefaulterFrom(_, _, _)
SgDefaulterResolved(defaulters, dc, annotation) ==
    IF annotation = ResolveError THEN Raise(ResolveError.name)
    ELSE IF IsType(annotation)
         THEN IF Has(defaulters, annotation) THEN Leaf(defaulters[Key(annotation)])
              ELSE IF annotation = TNone THEN Fn("type", "NoneType", <<>>, <<>>, <<>>)
              ELSE IF IsErr(ZeroArg(annotation.name)) THEN Raise("DefaultingAnnotationError")
              ELSE Fn("type", annotation.name, <<>>, <<>>, <<>>)
    ELSE IF ~HasOrigin(annotation) THEN Raise("DefaultingAnnotationError")
    ELSE IF Has(defaulters, get_origin(annotation))
         THEN Leaf(defaulters[Key(get_origin(annotation))])
    ELSE IF is_union(get_origin(annotation))
         THEN IF is_optional(annotation) THEN Fn("type", "NoneType", <<>>, <<>>, <<>>)
              ELSE SgDefaulterFrom(defaulters, dc, annotation.args[1])
    ELSE IF get_origin(annotation) = Type("tuple")
         THEN AmTupleDefaulter([i \in 1..Len(annotation.args) |->
                                   SgDefaulterFrom(defaulters, dc, annotation.args[i])])
    ELSE SgDefaulterFrom(defaulters, dc, get_origin(annotation))

\* defaulter_from_annotation under lru_cache.
SgDefaulterFrom(defaulters, dc, raw) ==
    IF Has(dc, raw) THEN dc[Key(raw)]
    ELSE SgDefaulterResolved(defaulters, dc, resolve_annotation_types(raw))

TupleIntT == Alias("tuple", <<TInt, TypeVarT>>)
UnionTInt == Alias("Union", <<TypeVarT, TInt>>)
UnAnnotations == {TInt, TypeVarT, TupleIntT, UnionTInt, OptionalT}
UnOps == {"validator_from_annotation", "defaulter_from_annotation", "converter_from_annotation"}

\* metacore: one of the three derivations of the default registry.
UnFromAnnotation ==
    \E annotation \in UnAnnotations, op \in UnOps :
        /\ ret' = Ret(op, annotation,
                      IF op = "validator_from_annotation"
                      THEN PubFrom("v", DefaultRegistry, annotation) ELSE NoFn,
                      IF op = "defaulter_from_annotation"
                      THEN PubFrom("d", DefaultRegistry, annotation) ELSE NoFn,
                      IF op = "converter_from_annotation"
                      THEN PubFrom("c", DefaultRegistry, annotation) ELSE NoFn, FALSE)
        /\ UNCHANGED <<processors, cache, nReg, lastLeaf>>
        /\ Others

\* sg_lib: validator_from_annotation(annotation)
UnSgValidatorFromAnnotation ==
    \E annotation \in UnAnnotations :
        /\ ret' = Ret("sg.validator_from_annotation", annotation,
                      SgValidatorFrom(sgReg, sgCache, annotation), NoFn, NoFn, FALSE)
        /\ sgCache' = [sgCache EXCEPT !.validator = SgValidatorCacheAfter(sgReg, sgCache, {annotation})]
        /\ UNCHANGED sgReg
        /\ SgOthers

\* sg_lib: defaulter_from_annotation(annotation); no defaulter is registered, so
\* the function's cache holds what the body returns.
UnSgDefaulterFromAnnotation ==
    \E annotation \in UnAnnotations :
        /\ ret' = Ret("sg.defaulter_from_annotation", annotation,
                      NoFn, SgDefaulterFrom(EmptyMap, EmptyMap, annotation), NoFn, FALSE)
        /\ UNCHANGED <<sgReg, sgCache>>
        /\ SgOthers

\* sg_lib: converter_from_annotation(annotation)
UnSgConverterFromAnnotation ==
    \E annotation \in UnAnnotations :
        /\ ret' = Ret("sg.converter_from_annotation", annotation, NoFn, NoFn,
                      SgConverterFrom(sgReg, sgCache, annotation, FALSE), FALSE)
        /\ sgCache' = SgCacheAfterConverter(sgReg, sgCache, annotation, FALSE,
                                            SgConverterFrom(sgReg, sgCache, annotation, FALSE))
        /\ UNCHANGED sgReg
        /\ SgOthers

NextUn ==
    \/ SgRegisterValidator
    \/ SgRegisterConverter
    \/ UnFromAnnotation
    \/ UnSgValidatorFromAnnotation
    \/ UnSgDefaulterFromAnnotation
    \/ UnSgConverterFromAnnotation

SpecUn == Init /\ [][NextUn]_vars

\* A descriptor that is not a type and has no origin, or a composite with such
\* an argument.
Unresolvable(d) == d.k = "typevar"
HoldsUnresolvable(d) ==
    Unresolvable(d) \/ (HasOrigin(d) /\ \E i \in 1..Len(d.args) : Unresolvable(d.args[i]))

\* What the last derivation call returned or raised.
UnResult ==
    IF ret.validator # NoFn THEN ret.validator
    ELSE IF ret.defaulter # NoFn THEN ret.defaulter
    ELSE ret.converter

UnDerived == ret.op \in UnOps \cup {"sg." \o op : op \in UnOps}

\* C23: for a descriptor that is neither a type nor subscripted and has no
\* registered leaf, alone or as an argument of a composite, validator_from,
\* defaulter_from and converter_from all raise the same error kind, the one for
\* unresolvable descriptors (AnnotationProcessorError).
C23_UnresolvableDescriptorError ==
    (UnDerived /\ HoldsUnresolvable(ret.ann)) => UnResult = Raise("AnnotationProcessorError")

(***************************************************************************)
(* metacore: a derivation that re-enters itself.  A creator registered for *)
(* an origin may ask the registry it is handed for the processor of the    *)
(* annotation being derived:                                               *)
(*   lambda inner, annotation, registry:                                   *)
(*       registry.converter_from_annotation(annotation)                    *)
(* Each call is a frame of the interpreter's stack; the interpreter raises *)
(* RecursionError at its recursion limit.                                  *)
(***************************************************************************)
RecursionLimit == 3

ReAnnotations == {TInt, ListInt, SetInt, TupleIntStr}
ReCreatorKeys == {Type("list"), Type("tuple")}
ReCreators(op) == IF op = "v" THEN {"ucReenter", "ucFull"} ELSE {"ucReenter", "ucConvZero"}
ReOps == {"v", "c"}
ReOpName(op) == IF op = "v" THEN "validator_from_annotation" ELSE "converter_from_annotation"
ReLeaf(op, entry) == IF op = "v" THEN entry.validate ELSE entry.convert
ReCreator(op, entry) == IF op = "v" THEN entry.cv ELSE entry.cc
ReCached(op, cache_entry) == IF op = "v" THEN cache_entry.validator ELSE cache_entry.converter

\* The derivation of op for the annotation reaches the call of a creator that
\* calls registry.<op>_from_annotation(annotation): no cached function, no leaf for
\* the annotation, an entry for the origin holding that creator, and the inner
\* processors prepared without an exception.
Reenters(op, R, raw) ==
    LET annotation == resolve_annotation_types(raw)
        origin_entry == get_processor(R.procs, get_origin(annotation))
    IN  /\ ReCached(op, CacheGet(R.cache, annotation)) = NoFn
        /\ ReLeaf(op, get_processor(R.procs, annotation)) = "none"
        /\ ~IsType(annotation)
        /\ HasOrigin(annotation)
        /\ HasEntry(origin_entry)
        /\ ReCreator(op, origin_entry) = "ucReenter"
        /\ ~IsRaise(PrepareInnerSafe(origin_entry, annotation, op, R).err)

ReResult(op, annotation, fn) ==
    Ret(ReOpName(op), annotation, IF op = "v" THEN fn ELSE NoFn, NoFn,
        IF op = "c" THEN fn ELSE NoFn, FALSE)

\* register_validator_creator / register_converter_creator, between two calls.
ReRegisterCreator ==
    \E annotation \in ReCreatorKeys, op \in ReOps :
      \E f \in ReCreators(op) :
        /\ stack = <<>>
        /\ nReg < MaxRegistrations
        /\ SetRegistry(RegisterSingle(DefaultRegistry, annotation, f, IF op = "v" THEN "cv" ELSE "cc"))
        /\ nReg' = nReg + 1
        /\ ret' = Returned(IF op = "v" THEN "register_validator_creator"
                           ELSE "register_converter_creator", annotation)
        /\ UNCHANGED lastLeaf
        /\ Others

\* register_converter(list[int], f): a leaf for the annotation itself.
ReRegisterConverter ==
    /\ stack = <<>>
    /\ RegisterLeaf("register_converter", {ListInt}, UserConverters, "convert")

\* The caller calls validator_from_annotation or converter_from_annotation.
ReCall ==
    \E annotation \in ReAnnotations, op \in ReOps :
        /\ stack = <<>>
        /\ stack' = <<[op |-> op, annotation |-> annotation]>>
        /\ ret' = ReResult(op, annotation, NoFn)
        /\ UNCHANGED <<processors, cache, nReg, lastLeaf, sgReg, sgCache, amReg, cn, th, classes>>

\* The creator calls the registry for the annotation of the frame on top.
ReEnter ==
    /\ stack # <<>>
    /\ Len(stack) < RecursionLimit
    /\ Reenters(stack[Len(stack)].op, DefaultRegistry, stack[Len(stack)].annotation)
    /\ stack' = Append(stack, stack[Len(stack)])
    /\ UNCHANGED <<processors, cache, nReg, ret, lastLeaf, sgReg, sgCache, amReg, cn, th, classes>>

\* The recursion limit is reached: RecursionError is no TypingError, nothing on
\* the way catches it, and it leaves the outermost call.
ReOverflow ==
    /\ Len(stack) = RecursionLimit
    /\ Reenters(stack[Len(stack)].op, DefaultRegistry, stack[Len(stack)].annotation)
    /\ stack' = <<>>
    /\ ret' = ReResult(stack[1].op, stack[1].annotation, Raise("RecursionError"))
    /\ UNCHANGED <<processors, cache, nReg, lastLeaf, sgReg, sgCache, amReg, cn, th, classes>>

\* The call on top makes no call for its own annotation and operation: it
\* returns (or raises) what the derivation gives, and so does the creator that
\* called it.  (A converter creator reading a validator whose creator re-enters
\* gets that call's RecursionError.)
ReReturn ==
    /\ stack # <<>>
    /\ ~Reenters(stack[Len(stack)].op, DefaultRegistry, stack[Len(stack)].annotation)
    /\ stack' = SubSeq(stack, 1, Len(stack) - 1)
    /\ ret' = ReResult(stack[1].op, stack[1].annotation,
                       PubFrom(stack[Len(stack)].op, DefaultRegistry, stack[Len(stack)].annotation))
    /\ UNCHANGED <<processors, cache, nReg, lastLeaf, sgReg, sgCache, amReg, cn, th, classes>>

NextRe ==
    \/ ReRegisterCreator
    \/ ReRegisterConverter
    \/ ReCall
    \/ ReEnter
    \/ ReOverflow
    \/ ReReturn

SpecRe == Init /\ [][NextRe]_vars

\* The last call has returned and its derivation asked for its own annotation.
ReenteredCallDone ==
    /\ stack = <<>>
    /\ ret.op \in {ReOpName(op) : op \in ReOps}
    /\ Reenters(IF ret.op = ReOpName("v") THEN "v" ELSE "c", DefaultRegistry, ret.ann)

\* C24: a derivation never has the same operation for the same descriptor in
\* progress twice: the re-entering call raises the error for unresolvable
\* descriptors (AnnotationProcessorError) instead of recursing, and that is what
\* the outermost call raises.
C24_ReentryRaisesUnresolvable ==
    /\ \A i, j \in 1..Len(stack) : i < j => stack[i] # stack[j]
    /\ ReenteredCallDone =>
          (IF ret.op = ReOpName("v") THEN ret.validator ELSE ret.converter)
              = Raise("AnnotationProcessorError")

(***************************************************************************)
(* sg_lib: defaulter_from_annotation in one thread and register_defaulter  *)
(* in another, with no lock around either.  functools.lru_cache looks the  *)
(* key up, calls the function on a miss and stores the result afterwards;  *)
(* register_defaulter stores the defaulter, then clears the cache.  A      *)
(* thread switch can fall between any two of these steps.                  *)
(***************************************************************************)
MaxThRegistrations == 2

ThAnnotations == {TInt, TStr, TCls}
ThTypes == {TInt, TCls}
ThDefaulters == {"dStrA", "dInt1"}

ThOthers == UNCHANGED <<processors, cache, nReg, ret, lastLeaf, sgReg, sgCache, amReg, cn, stack, classes>>

\* defaulter_from_annotation.cache_clear() without the call.
SgRegisterDefaulterNoClear(dc) == dc
\* TypeRegistry.register_defaulter, second statement: the cache after
\* defaulter_from_annotation.cache_clear().
SgRegisterDefaulterClear(dc) == EmptyMap

\* Thread 1, defaulter_from_annotation(annotation): the lookup of lru_cache.  A
\* hit returns the cached function; a miss goes on to the body.
ThLookup ==
    \E annotation \in ThAnnotations :
        /\ th.pc1 = "idle"
        /\ th' = IF Has(th.dc, annotation)
                 THEN [th EXCEPT !.annotation = annotation, !.result = th.dc[Key(annotation)]]
                 ELSE [th EXCEPT !.annotation = annotation, !.result = NoFn, !.pc1 = "derive"]
        /\ ThOthers

\* Thread 1: the body reads the register (has_defaulter, get_defaulter) and
\* returns or raises; an exception leaves the call, nothing is stored.
ThDerive ==
    /\ th.pc1 = "derive"
    /\ LET made == SgDefaulterResolved(th.defaulters, th.dc,
                                       resolve_annotation_types(th.annotation))
       IN  th' = IF IsRaise(made)
                 THEN [th EXCEPT !.result = made, !.pc1 = "idle"]
                 ELSE [th EXCEPT !.made = made, !.read = th.n, !.pc1 = "store"]
    /\ ThOthers

\* Thread 1: lru_cache stores the function the body returned and returns it.
\* raced records the keys stored after a registration that the body had not seen.
ThStore ==
    /\ th.pc1 = "store"
    /\ th' = [th EXCEPT !.dc = Put(th.dc, Key(th.annotation), th.made),
                        !.result = th.made,
                        !.pc1 = "idle",
                        !.raced = IF th.read < th.n THEN @ \cup {Key(th.annotation)}
                                  ELSE @ \ {Key(th.annotation)}]
    /\ ThOthers

\* Thread 2, register_defaulter(special_type, defaulter), first statement:
\* self.__defaulters[special_type] = defaulter.
ThRegisterStore ==
    \E special_type \in ThTypes, defaulter \in ThDefaulters :
        /\ th.pc2 = "idle"
        /\ th.n < MaxThRegistrations
        /\ th' = [th EXCEPT !.defaulters = Put(@, Key(special_type), defaulter),
                            !.n = @ + 1,
                            !.pc2 = "clear"]
        /\ ThOthers

\* Thread 2, second statement: defaulter_from_annotation.cache_clear().
ThRegisterClear ==
    /\ th.pc2 = "clear"
    /\ th' = [th EXCEPT !.dc = SgRegisterDefaulterClear(th.dc), !.raced = {}, !.pc2 = "idle"]
    /\ ThOthers

NextTh ==
    \/ ThLookup
    \/ ThDerive
    \/ ThStore
    \/ ThRegisterStore
    \/ ThRegisterClear

SpecTh == Init /\ [][NextTh]_vars

\* Both threads have finished their calls.
ThQuiescent == th.pc1 = "idle" /\ th.pc2 = "idle"

\* The cache returns for the annotation a function other than the one the
\* register now gives.
ThStale(annotation) ==
    /\ Has(th.dc, annotation)
    /\ th.dc[Key(annotation)]
          # SgDefaulterResolved(th.defaulters, EmptyMap, resolve_annotation_types(annotation))

\* C25: once both threads have finished, the cache returns for a descriptor a
\* function derived from a replaced entry only through the race: the derivation
\* read the register before a registration stored its entry, and stored its
\* result after that registration had cleared the cache.  The witness is the
\* state the race leaves behind.
C25_StaleOnlyByRace ==
    ThQuiescent =>
        \A annotation \in ThAnnotations :
            ThStale(annotation) => Key(annotation) \in th.raced

C25_Witness ==
    /\ ThQuiescent
    /\ ThStale(TInt)
    /\ Key(TInt) \in th.raced
    /\ th.dc[Key(TInt)] = Leaf("dStrA")
    /\ th.defaulters[Key(TInt)] = "dInt1"

(***************************************************************************)
(* metacore: constant classes deriving from constant classes.  A class is  *)
(* named by its position in classes; 0 names ConstantNamespace, which has  *)
(* no constants.  The members are annotated int members with int values,   *)
(* which _verify_functions and _verify_annotations_and_coerce let through. *)
(***************************************************************************)
MaxClasses == 3
MaxBases == 2

InBodies == {<<>>, <<"A">>, <<"B", "A">>, <<"_p", "C">>}

\* base.__constants__
InConstantsOfBase(base) == IF base = 0 THEN <<>> ELSE classes[base].constants
InMroOfBase(base) == IF base = 0 THEN <<0>> ELSE classes[base].mro

\* The bases of a class statement: ConstantNamespace when none of the classes
\* created so far is named.
InBases(named) == IF named = <<>> THEN <<0>> ELSE named
InNamedBases ==
    {named \in UNION {[1..n -> 1..Len(classes)] : n \in 0..MaxBases} :
        \A i, j \in 1..Len(named) : named[i] = named[j] => i = j}

\* The merge of type.__new__'s method resolution order (C3): the first head that
\* is in no tail, again and again; <<-1>> when there is none.
RECURSIVE InMerge(_)
InMerge(seqs) ==
    LET rest == SelectSeq(seqs, LAMBDA q : q # <<>>)
        good == {i \in 1..Len(rest) :
                    \A j \in 1..Len(rest) : \A k \in 2..Len(rest[j]) : rest[j][k] # rest[i][1]}
    IN  IF rest = <<>> THEN <<>>
        ELSE IF good = {} THEN <<-1>>
        ELSE LET head == rest[CHOOSE i \in good : \A j \in good : i <= j][1]
                 next == InMerge([j \in 1..Len(rest) |->
                                     IF rest[j][1] = head THEN Tail(rest[j]) ELSE rest[j]])
             IN  IF next = <<-1>> THEN <<-1>> ELSE <<head>> \o next
InMro(bases) == InMerge([i \in 1..Len(bases) |-> InMroOfBase(bases[i])] \o <<bases>>)

\* One round of the loop over the bases, with the names of the class after the
\* names of the base whether the base has them or not.
add_base_names_repeating(constants, base_constants) == base_constants \o constants
\* One round of the loop over the bases: the names of the base, then the names
\* collected so far that the base does not have.
add_base_names(constants, base_constants) ==
    base_constants \o SelectSeq(constants, LAMBDA k : k \notin SeqRange(base_constants))

\* for base in bases: ... namespace["__constants__"] = tuple(constants_names)
RECURSIVE add_superclasses_names(_, _, _)
add_superclasses_names(constants, bases, i) ==
    IF i > Len(bases) THEN constants
    ELSE add_superclasses_names(add_base_names(constants, InConstantsOfBase(bases[i])),
                                bases, i + 1)

\* namespace["__constants__"] of ConstantsMetaclass.__new__
InConstants(body, allow_private, bases) ==
    add_superclasses_names(
        SelectSeq(body, LAMBDA k : allow_private \/ ~StartsWithUnderscore(k)), bases, 1)

InOthers ==
    UNCHANGED <<processors, cache, nReg, ret, lastLeaf, sgReg, sgCache, amReg, cn, stack, th>>

\* class K(*bases, allow_private=...): <body>.  type.__new__ raises TypeError for
\* bases without a consistent method resolution order and no class is created.
InNewClass ==
    \E body \in InBodies, allow_private \in BOOLEAN, named \in InNamedBases :
        /\ Len(classes) < MaxClasses
        /\ classes' =
              IF InMro(InBases(named)) = <<-1>> THEN classes
              ELSE Append(classes,
                          [bases |-> InBases(named),
                           mro |-> <<Len(classes) + 1>> \o InMro(InBases(named)),
                           own |-> SelectSeq(body, LAMBDA k : allow_private \/ ~StartsWithUnderscore(k)),
                           constants |-> InConstants(body, allow_private, InBases(named))])
        /\ InOthers

NextIn == InNewClass

SpecIn == Init /\ [][NextIn]_vars

InBaseNames(c) == UNION {SeqRange(InConstantsOfBase(c.bases[i])) : i \in 1..Len(c.bases)}

\* C26: __constants__ of a derived constant class holds every constant name of
\* each of its bases and every constant the class declares, nothing else, each
\* name once, and no name of a base comes after a name only the class declares.
C26_ConstantsOfDerivedClass ==
    \A n \in 1..Len(classes) :
        LET c == classes[n]
        IN  /\ SeqRange(c.constants) = InBaseNames(c) \cup SeqRange(c.own)
            /\ \A i, j \in 1..Len(c.constants) : c.constants[i] = c.constants[j] => i = j
            /\ \A i, j \in 1..Len(c.constants) :
                  (c.constants[i] \notin InBaseNames(c) /\ c.constants[j] \in InBaseNames(c))
                      => j < i

\* A class with two bases that have constants, redeclaring a constant of a base
\* and declaring one of its own.
C26_Witness ==
    \E n \in 1..Len(classes) :
        LET c == classes[n]
        IN  /\ Len(c.bases) = 2
            /\ \A i \in 1..2 : InConstantsOfBase(c.bases[i]) # <<>>
            /\ InConstantsOfBase(c.bases[1]) # InConstantsOfBase(c.bases[2])
            /\ SeqRange(c.own) \cap InBaseNames(c) # {}
            /\ SeqRange(c.own) \ InBaseNames(c) # {}

\* The validators the converter returned by sg_lib's converter_from_annotation
\* classifies values with: those union_converter read when it was created.
SgClassifiers(converter) == SeqRange(converter.inner[1].aux)

\* C27: in sg_lib, while a validator f is registered for int, every converter
\* converter_from_annotation returns for a union containing int classifies values
\* with f and not with the isinstance test, also when a converter for that
\* annotation was derived before register_validator(int, f).
C27_ConverterUsesRegisteredValidator ==
    (/\ ret.op = "sg.converter_from_annotation"
     /\ ~ret.fiu
     /\ ret.ann \in {UnionIntStr, UnionStrInt}
     /\ IsFn(ret.converter)
     /\ Has(sgReg.validators, TInt))
        => /\ Leaf(sgReg.validators[Key(TInt)]) \in SgClassifiers(ret.converter)
           /\ Fn("isinstance", "int", <<>>, <<>>, <<>>) \notin SgClassifiers(ret.converter)

(***************************************************************************)
(* metacore: a registry constructed by the caller, next to the process-    *)
(* wide one.  AnnotationsRegistery() starts empty; the caller registers    *)
(* the built-in entry classes for tuple, list and set in it:               *)
(*   other = AnnotationsRegistery()                                        *)
(*   other.register_processor(list, DynamicContainerAnnotationEntry(list)) *)
(***************************************************************************)
OtherRegistry ==
    [procs |-> [k \in {Type("tuple"), Type("list"), Type("set")} |-> BuiltinEntries[k]],
     cache |-> [k \in {} |-> EmptyCacheEntry]]

IsoAnnotations == {TInt, ListInt, SetInt, TupleIntStr, UnionIntStr}
IsoOps == {"v", "d", "c"}
IsoOpName(op) ==
    CASE op = "v" -> "other.validator_from_annotation"
      [] op = "d" -> "other.defaulter_from_annotation"
      [] OTHER -> "other.converter_from_annotation"

\* other.validator_from_annotation / defaulter_from_annotation / converter_from_annotation
IsoFromAnnotation ==
    \E annotation \in IsoAnnotations, op \in IsoOps :
        /\ ret' = Ret(IsoOpName(op), annotation,
                      IF op = "v" THEN PubFrom("v", OtherRegistry, annotation) ELSE NoFn,
                      IF op = "d" THEN PubFrom("d", OtherRegistry, annotation) ELSE NoFn,
                      IF op = "c" THEN PubFrom("c", OtherRegistry, annotation) ELSE NoFn, FALSE)
        /\ UNCHANGED <<processors, cache, nReg, lastLeaf>>
        /\ Others

NextIso ==
    \/ RegisterValidator
    \/ RegisterDefaulter
    \/ RegisterConverter
    \/ IsoFromAnnotation

SpecIso == Init /\ [][NextIso]_vars

\* The leaves (functions handed to a registration call) a derived function calls.
RECURSIVE FnLeaves(_)
FnLeaves(fn) ==
    IF fn.f = "leaf" THEN {fn.id}
    ELSE UNION ({FnLeaves(fn.inner[i]) : i \in 1..Len(fn.inner)}
                \cup {FnLeaves(fn.aux[i]) : i \in 1..Len(fn.aux)})

\* The leaves held by the entries of a registry.
RegistryLeaves(R) ==
    UNION {{R.procs[k].validate, R.procs[k].default, R.procs[k].convert} : k \in DOMAIN R.procs}
        \ {"none"}

\* What the last call on the caller's own registry returned or raised.
IsoResult ==
    IF ret.validator # NoFn THEN ret.validator
    ELSE IF ret.defaulter # NoFn THEN ret.defaulter
    ELSE ret.converter

\* C28: what the caller's own registry derives depends on its entries only: the
\* validator, defaulter or converter it returns calls no function that was
\* registered in the process-wide registry and not in it, list and set
\* annotations included.
C28_RegistryIsolation ==
    (ret.op \in {IsoOpName(op) : op \in IsoOps} /\ IsFn(IsoResult))
        => FnLeaves(IsoResult) \subseteq RegistryLeaves(OtherRegistry)

(***************************************************************************)
(* metacore: registration under a raw declaration.  None stands for        *)
(* NoneType and the string "int" for int; the derivation calls normalise   *)
(* their argument with resolve_annotation_types, register_processor and    *)
(* get_processor use the annotation they are given as the key.             *)
(***************************************************************************)
NoneShorthand == Ann("none", "None", <<>>, <<>>)
RawDeclarations == {NoneShorthand, TNone, Fwd("int"), TInt}

RawRegister(op, fns, field) ==
    \E annotation \in RawDeclarations, f \in fns :
        /\ nReg < MaxRegistrations
        /\ SetRegistry(RegisterSingle(DefaultRegistry, annotation, f, field))
        /\ nReg' = nReg + 1
        /\ ret' = Returned(op, annotation)
        /\ UNCHANGED lastLeaf
        /\ Others

RawRegisterValidator == RawRegister("register_validator", UserValidators, "validate")
RawRegisterDefaulter == RawRegister("register_defaulter", UserDefaulters, "default")

RawValidatorFromAnnotation ==
    \E annotation \in RawDeclarations :
        /\ ret' = Ret("validator_from_annotation", annotation,
                      PubFrom("v", DefaultRegistry, annotation), NoFn, NoFn, FALSE)
        /\ UNCHANGED <<processors, cache, nReg, lastLeaf>>
        /\ Others

RawDefaulterFromAnnotation ==
    \E annotation \in RawDeclarations :
        /\ ret' = Ret("defaulter_from_annotation", annotation,
                      NoFn, PubFrom("d", DefaultRegistry, annotation), NoFn, FALSE)
        /\ UNCHANGED <<processors, cache, nReg, lastLeaf>>
        /\ Others

NextRaw ==
    \/ RawRegisterValidator
    \/ RawRegisterDefaulter
    \/ RawValidatorFromAnnotation
    \/ RawDefaulterFromAnnotation

SpecRaw == Init /\ [][NextRaw]_vars

\* The leaf of the field registered under the declaration itself, "none" if none.
RawLeaf(declaration, field) ==
    IF Key(declaration) \in DOMAIN processors THEN processors[Key(declaration)][field]
    ELSE "none"

\* The declaration is the only one, among those normalising to the descriptor of
\* the last call's annotation, that a leaf of the field is registered under.
OnlyRegistered(declaration, field) ==
    /\ resolve_annotation_types(declaration) = resolve_annotation_types(ret.ann)
    /\ RawLeaf(declaration, field) # "none"
    /\ \A other \in RawDeclarations \ {declaration} :
          resolve_annotation_types(other) = resolve_annotation_types(ret.ann)
              => RawLeaf(other, field) = "none"

\* C29: the leaf registered under a raw declaration is the one the derivations
\* return for every declaration normalising to the same descriptor (None and
\* NoneType, "int" and int).
C29_RegistrationAndLookupAgree ==
    \A declaration \in RawDeclarations :
        /\ (ret.op = "validator_from_annotation" /\ OnlyRegistered(declaration, "validate"))
              => ret.validator = Leaf(RawLeaf(declaration, "validate"))
        /\ (ret.op = "defaulter_from_annotation" /\ OnlyRegistered(declaration, "default"))
              => ret.defaulter = Leaf(RawLeaf(declaration, "default"))

(***************************************************************************)
(* metacore: the cache keys a derivation creates.  __cache is a            *)
(* DefaultDict(CacheEntry), and every private derivation starts with       *)
(* cache_entry = self.__cache[annotation]: reading a missing key inserts   *)
(* an empty entry for it.  Touched is the set of keys read by one call, in *)
(* the order of the code and up to its first exception; the public         *)
(* functions normalise the annotation before anything is read.             *)
(***************************************************************************)
CkAnnotations == {TCls, TypeVarT, TupleIntT, UnionTInt, Fwd("Nope")}
CkOps == {"v", "d", "c"}
CkOpName(op) ==
    CASE op = "v" -> "validator_from_annotation"
      [] op = "d" -> "defaulter_from_annotation"
      [] OTHER -> "converter_from_annotation"

RECURSIVE Touched(_, _, _, _)
\* The keys read by the derivations of the arguments, each derived only when the
\* ones before it did not raise.
TouchedArgs(op, R, args, public) ==
    UNION {Touched(op, R, args[i], public) :
             i \in {n \in 1..Len(args) :
                      \A j \in 1..(n - 1) : ~IsRaise(Derive(op, R, args[j], public))}}

\* The keys read by the creator of the origin's entry: prepare_inner derives the
\* arguments through the public functions; the tuple and the dynamic-container
\* converter creators then ask for the validator of the annotation.
TouchedByCreator(op, entry, annotation, R) ==
    LET p == PrepareInnerSafe(entry, annotation, op, R)
    IN  (IF entry.cls = "Literal" THEN {} ELSE TouchedArgs(op, R, annotation.args, TRUE))
        \cup (IF IsRaise(p.err) \/ op # "c" THEN {}
              ELSE IF entry.cc = "Tuple" THEN Touched("v", R, annotation, TRUE)
              ELSE IF entry.cc \in {"Dyn_list", "Dyn_set"}
                   THEN Touched("v", DefaultRegistry, annotation, TRUE)
              ELSE {})

\* The keys read by the union rule: every inner validator; the first inner
\* defaulter unless the union is optional; the validators, then the converters.
TouchedByUnion(op, R, annotation) ==
    CASE op = "v" -> TouchedArgs("v", R, annotation.args, FALSE)
      [] op = "d" ->
            IF is_optional(annotation) \/ annotation.args = <<>> THEN {}
            ELSE Touched("d", R, annotation.args[1], FALSE)
      [] OTHER ->
            TouchedArgs("v", R, annotation.args, TRUE)
            \cup (IF \E i \in 1..Len(annotation.args) :
                        IsRaise(PubFrom("v", R, annotation.args[i]))
                  THEN {} ELSE TouchedArgs("c", R, annotation.args, FALSE))

\* The keys read from the origin on: creator, leaf, union, origin.
TouchedFromOrigin(op, R, annotation) ==
    LET origin == get_origin(annotation)
        origin_entry == get_processor(R.procs, origin)
        created == RawCreate(op, origin_entry, annotation, R)
    IN  (IF HasEntry(origin_entry) THEN TouchedByCreator(op, origin_entry, annotation, R)
         ELSE {})
        \cup (IF HasEntry(origin_entry) /\ created # NotImpl THEN {}
              ELSE IF HasEntry(origin_entry) /\ origin_entry[LeafField(op)] # "none" THEN {}
              ELSE IF is_union(origin) THEN TouchedByUnion(op, R, annotation)
              ELSE Touched(op, R, origin, FALSE))

Touched(op, R, raw, public) ==
    LET annotation == IF public THEN resolve_annotation_types(raw) ELSE raw
        cache_entry == CacheGet(R.cache, annotation)
        cached == CASE op = "v" -> cache_entry.validator
                    [] op = "d" -> cache_entry.defaulter
                    [] OTHER -> cache_entry.converter
        entry == get_processor(R.procs, annotation)
    IN  IF annotation = ResolveError THEN {}
        ELSE {Key(annotation)}
             \cup (IF cached # NoFn THEN {}
                   ELSE IF HasEntry(entry) /\ entry[LeafField(op)] # "none" THEN {}
                   ELSE IF IsType(annotation) \/ ~HasOrigin(annotation) THEN {}
                   ELSE TouchedFromOrigin(op, R, annotation))

\* self.__cache after the reads: an empty CacheEntry under every key that was
\* read and was missing.
CacheAfterReads(c, keys) ==
    [k \in DOMAIN c \cup keys |-> IF k \in DOMAIN c THEN c[k] ELSE EmptyCacheEntry]

\* validator_from_annotation / defaulter_from_annotation / converter_from_annotation
\* of the default registry, with the entries its cache reads insert.
CkFromAnnotation ==
    \E annotation \in CkAnnotations, op \in CkOps :
        /\ ret' = Ret(CkOpName(op), annotation,
                      IF op = "v" THEN PubFrom("v", DefaultRegistry, annotation) ELSE NoFn,
                      IF op = "d" THEN PubFrom("d", DefaultRegistry, annotation) ELSE NoFn,
                      IF op = "c" THEN PubFrom("c", DefaultRegistry, annotation) ELSE NoFn, FALSE)
        /\ cache' = CacheAfterReads(cache, Touched(op, DefaultRegistry, annotation, TRUE))
        /\ UNCHANGED <<processors, nReg, lastLeaf>>
        /\ Others

NextCk == RegisterValidator \/ CkFromAnnotation
SpecCk == Init /\ [][NextCk]_vars

CkResult(r) ==
    IF r.validator # NoFn THEN r.validator
    ELSE IF r.defaulter # NoFn THEN r.defaulter
    ELSE r.converter

\* A step that is a derivation call which raised.
CkFailedCall == ret'.op \in {CkOpName(op) : op \in CkOps} /\ IsRaise(CkResult(ret'))

\* C30: a derivation that fails leaves the registry unchanged: the processors
\* map and the set of cache entries are the same after the failed call as
\* before it.
C30_FailedDerivationLeavesRegistry ==
    [][CkFailedCall => (processors' = processors /\ DOMAIN cache' = DOMAIN cache)]_vars
====
